---- MODULE Spec2Model ----
(***************************************************************************)
(* Voice gateway: the Twilio <-> Voice-AI bridge of one call               *)
(* (services/gateway/stream_handler.py), the session registry              *)
(* (services/gateway/session_manager.py), the webhook layer                *)
(* (services/gateway/app.py) and the handover publisher                    *)
(* (services/orchestrator/orchestrator.py, dynamo_repository.py).          *)
(*                                                                         *)
(* One step of the model is one run of a coroutine between two awaits of   *)
(* the asyncio event loop: the endpoint, handle_stream, the two bridging   *)
(* tasks and the HTTP callback interleave only at awaits.                  *)
(*                                                                         *)
(* A behaviour follows one websocket connection, that is one media stream  *)
(* of one call (the TwiML of twilio_voice_webhook opens one stream per     *)
(* call), with stream-ended callbacks for any call sid arriving at any     *)
(* time.  Stream sids are the non-empty identifiers Twilio assigns, and    *)
(* settings.token_length is positive.                                      *)
(*                                                                         *)
(* The components around the bridge have specifications of their own:      *)
(* TokenSpec (token_generator.py), PolicySpec and KeywordSpec              *)
(* (escalation.py), HandoverSpec (dynamo_repository.py and the Amazon      *)
(* Connect Lambda, aws/connect_lambda/handler.py), ClientSpec (the two     *)
(* VoiceClient adapters, openai_realtime.py and nova_sonic.py) and         *)
(* RelaySpec (the two bridging loops of stream_handler.py, message by      *)
(* message).                                                               *)
(***************************************************************************)
EXTENDS Integers, Sequences, FiniteSets, TLC

\* ------------------------------------------------------------------ bounds
\* settings.token_length as configured for the model (default 10 in config.py)
TokenLength == 2
\* the random digits explored are "0" .. the digit of this index
MaxDigit == 1
\* number of stream-ended callbacks Twilio (or anyone) posts
MaxCallbacks == 2
\* cap of the publisher-invocation counter
MaxPublishes == 2
\* largest `length` generate_token is called with on its own
MaxTokenLength == 6
\* number of transcripts a session hears (one more than the buffer keeps)
MaxCalls == 11
\* number of words of the longest transcript examined for keywords
MaxWords == 3
\* resolution of the clock: ticks in a second
TicksPerSecond == 3
\* last tick of the clock
MaxTick == 5
\* number of events the provider sends on one connection
MaxEvents == 2
\* number of close() calls on one client
MaxCloses == 2
\* cap of the count of idle polls of events()
MaxPolls == 2
\* number of messages the telephony loop reads from one stream
MaxMessages == 2
\* number of events the provider emits while one stream is bridged
MaxProviderEvents == 2
\* number of send_audio_base64 calls on one client
MaxChunks == 2
\* number of tool calls the provider makes on one connection
MaxToolCalls == 1
\* number of tool-call tasks a receive loop creates
MaxToolTasks == 2
\* number of frames an EscalationProcessor is given
MaxFrames == 3

\* ------------------------------------------------------------------ values
\* string.digits
Digits == <<"0", "1", "2", "3", "4", "5", "6", "7", "8", "9">>

\* the digits the model lets random.choices draw
SampledDigits == {Digits[i + 1] : i \in 0..MaxDigit}

\* identifiers Twilio assigns
StreamSids == {"MZ1", "MZ2"}
CallSids == {"CA1", "CA2"}
\* CallSid values a stream-ended callback may carry ("unknown": parameter missing)
CallbackSids == CallSids \cup {"unknown"}
\* uuid4 values
ConversationIds == {"conv-a"}

\* metadata without a "handover_token" key (metadata.get(...) is falsy)
NoToken == << >>
\* Python None for the CRM identifiers
None == "None"

\* the token drawn from string.hexdigits
generate_token_hexdigits(length) == [1..length -> SampledDigits \cup {"a"}]

\* generate_token(length): "".join(random.choices(string.digits, k=length)),
\* the set of outcomes the model explores
generate_token(length) == [1..length -> SampledDigits]

\* first messages the websocket endpoint may read
FirstMessages == {"connected", "start", "start_no_call_sid", "media", "invalid_json",
                  "disconnect"}

\* frames of the Twilio media stream as _handle_twilio_to_openai tells them apart
TwilioFrames == {"start", "media", "media_empty", "stop", "invalid_json", "not_object"}

\* event types as _handle_openai_to_twilio tells them apart
AiEvents == {"response.created", "response.audio.delta", "delta_empty",
             "conversation.item.input_audio_transcription.completed",
             "response.audio_transcript.done", "response.done", "error",
             "escalation.triggered"}

\* states of an asyncio task of the bridge
Finished == {"done", "cancelled"}
NotStarted == {"none"}

VARIABLES
    sessions,        \* SessionManager.sessions: the keys (stream sids) in insertion order
    session,         \* the SessionState objects, by stream sid
    store,           \* the DynamoDB table: set of items, one per token
    putCount,        \* number of table.put_item calls that succeeded
    hubspot_enabled, \* HubSpotClient.enabled
    wsPc,            \* position of twilio_stream_websocket
    data,            \* what the endpoint's last receive_text gave (None: nothing read)
    hsPc,            \* position of StreamHandler.handle_stream
    stream,          \* stream sid of the handler's session ("" before the start message)
    running,         \* StreamHandler._running
    tTask,           \* the task running _handle_twilio_to_openai
    aTask,           \* the task running _handle_openai_to_twilio
    closeCalls,      \* number of calls of voice_client.close()
    publishes,       \* number of calls of Orchestrator.execute_escalation
    esc,             \* locals of the execute_escalation call in progress
    escResult,       \* how the last execute_escalation call ended
    crm,             \* what happened to the CRM steps of that call
    storeOutcome,    \* what happened to its put_handover
    response,        \* the response the last stream-ended callback returned
    callbacks,       \* number of stream-ended callbacks served
    redirects        \* per stream sid, number of redirect responses produced

\* the variables of the bridge of one call
bridgeVars == <<sessions, session, store, putCount, hubspot_enabled, wsPc, data, hsPc, stream,
                running, tTask, aTask, closeCalls, publishes, esc, escResult, crm,
                storeOutcome, response, callbacks, redirects>>

\* The components the bridge calls are also specified on their own, each in a
\* specification that applies the component's operations to inputs drawn from
\* small sets; while one specification runs, the variables of the others rest.
VARIABLES
    token_length,      \* generate_token: the `length` argument (settings.token_length)
    generated,         \* generate_token: the string returned (NoToken before any call)
    transcript_buffer, \* escalation policy: session.transcript_buffer
    verdict,           \* escalation policy: what check_escalation_needed returned last
    heard,             \* escalation policy: the transcripts passed so far, oldest first
    table,             \* handover store: the items of the HandoverTokens table
    clock,             \* handover store: datetime.now(UTC), in ticks
    puts,              \* handover store: the payloads given to put_handover, oldest first
    reply,             \* handover store: what a read of the table as it is now returned
    adapter,           \* voice client: the VoiceClient implementation in use
    ws,                \* voice client: OpenAIRealtimeClient.ws
    connected,         \* voice client: NovaClient._connected
    stream_response,   \* voice client: NovaClient._stream_response is set
    receive_task,      \* voice client: _receive_task (OpenAI), _response_task (Nova)
    sender_task,       \* voice client: NovaClient._audio_sender_task
    event_queue,       \* voice client: _event_queue
    eventsPc,          \* voice client: position of the consumer's events() generator
    yielded,           \* voice client: the events events() has yielded, oldest first
    received,          \* voice client: the events the receive loop has queued, oldest first
    polls,             \* voice client: times events() timed out on the empty queue and went on
    teardown,          \* voice client: what close() calls have done so far
    closes,            \* voice client: number of close() calls that returned
    connect_call,      \* voice client: where connect() met an error, and how it ended
    audio_received,    \* voice client: the arguments of send_audio_base64, oldest first
    audio_input_queue, \* voice client: NovaClient._audio_input_queue
    audio_stream_started, \* voice client: NovaClient._audio_stream_started
    audio_bytes,       \* voice client: the chunk _process_audio_queue holds (None: none)
    input_stream,      \* voice client: the frames handed to the provider connection
    tool_results       \* voice client: triggers_escalation of each ToolResult, oldest first

tokenVars == <<token_length, generated>>
policyVars == <<transcript_buffer, verdict, heard>>
handoverVars == <<table, clock, puts, reply>>
\* the audio path of a client towards the provider
audioVars == <<audio_received, audio_input_queue, audio_stream_started, audio_bytes,
               input_stream>>

clientVars == <<adapter, ws, connected, stream_response, receive_task, sender_task,
                event_queue, eventsPc, yielded, received, polls, teardown, closes,
                connect_call, audioVars, tool_results>>

\* The two bridging loops of StreamHandler are also specified with what they
\* carry: the messages, payloads, events and frames of one bridged stream.
VARIABLES
    is_running,        \* relay: StreamHandler._running
    relay_sid,         \* relay: session.stream_sid
    twilio_to_openai,  \* relay: position of the task running _handle_twilio_to_openai
    openai_to_twilio,  \* relay: position of the task running _handle_openai_to_twilio
    messages,          \* relay: the messages the telephony loop has read, oldest first
    audio_sent,        \* relay: the arguments of the send_audio_base64 calls, oldest first
    provider_queue,    \* relay: the client's queue of events not yet taken
    emitted,           \* relay: the events the provider emitted, each with _running then
    consumed,          \* relay: the events the AI loop took, each with _running then
    media_sent,        \* relay: the messages given to websocket.send_json, oldest first
    publisher,         \* relay: the execute_escalation calls and the state of the last
    controls           \* relay: the cancel_response and send_user_message calls made

relayVars == <<is_running, relay_sid, twilio_to_openai, openai_to_twilio, messages,
               audio_sent, provider_queue, emitted, consumed, media_sent, publisher,
               controls>>

NoPublisher == [calls |-> << >>, state |-> "idle"]

\* a StreamHandler as constructed (stream_handler.py 33-40), bridging nothing
RelayIdle ==
    /\ is_running = FALSE
    /\ relay_sid = ""
    /\ twilio_to_openai = "none"
    /\ openai_to_twilio = "none"
    /\ messages = << >>
    /\ audio_sent = << >>
    /\ provider_queue = << >>
    /\ emitted = << >>
    /\ consumed = << >>
    /\ media_sent = << >>
    /\ publisher = NoPublisher
    /\ controls = << >>

VARIABLES
    escalation_triggered, \* pipeline: EscalationProcessor.escalation_triggered
    pending_escalation,   \* pipeline: EscalationProcessor._pending_escalation
    frames,               \* pipeline: the frames given to process_frame, oldest first
    on_escalation,        \* pipeline: the calls of the escalation callback, oldest first
    pushed,               \* pipeline: the frames given to push_frame, oldest first
    registry_call,        \* registry: the last call on the SessionManager and its result
    tool_tasks            \* voice client: the tasks created for tool calls, oldest first

processorVars == <<escalation_triggered, pending_escalation, frames, on_escalation, pushed>>
registryVars == <<registry_call>>
toolVars == <<tool_tasks>>

\* an EscalationProcessor as constructed (escalation_processor.py 56-64)
ProcessorIdle ==
    /\ escalation_triggered = FALSE
    /\ pending_escalation = FALSE
    /\ frames = << >>
    /\ on_escalation = << >>
    /\ pushed = << >>

\* None where a SessionState is expected
NoSession ==
    [conversation_id |-> "", call_sid |-> "", stream_sid |-> "", status |-> "none",
     handover_token |-> << >>]

\* a call on the SessionManager: the operation, the call and the stream it is
\* about, and the session it returned
RegistryCall(op, call_sid, stream_sid, result) ==
    [op |-> op, call_sid |-> call_sid, stream_sid |-> stream_sid, result |-> result]

\* no call on the registry is being followed
NoRegistryCall == RegistryCall("none", "", "", NoSession)

RegistryIdle == registry_call = NoRegistryCall

\* no tool call has been received
ToolIdle == tool_tasks = << >>

\* the variables of the components specified on their own
unitVars == <<tokenVars, policyVars, handoverVars, clientVars, relayVars,
              processorVars, registryVars, toolVars>>

\* no generate_token call is being followed
TokenIdle ==
    /\ token_length = 0
    /\ generated = NoToken

\* (False, None)
NoVerdict == [escalate |-> FALSE, reason |-> None]

\* a session that has heard nothing
PolicyIdle ==
    /\ transcript_buffer = << >>
    /\ verdict = NoVerdict
    /\ heard = << >>

NoReply == [op |-> "none", token |-> NoToken, kind |-> "none", payload |-> << >>,
            route_to_queue |-> "none", queried |-> FALSE, at |-> 0]

\* an empty table that nobody reads
HandoverIdle ==
    /\ table = {}
    /\ clock = 0
    /\ puts = << >>
    /\ reply = NoReply

NoTeardown == [cancels |-> 0, socket_closes |-> 0, session_ends |-> 0]

NoConnect == [fault |-> "none", outcome |-> "none"]

\* connect() not called, no audio given, no tool called
ClientUnused ==
    /\ connect_call = NoConnect
    /\ audio_received = << >>
    /\ audio_input_queue = << >>
    /\ audio_stream_started = FALSE
    /\ audio_bytes = None
    /\ input_stream = << >>
    /\ tool_results = << >>

\* a client as its constructor leaves it (openai_realtime.py 38-44,
\* nova_sonic.py 46-58), with nobody iterating its events
ClientIdle ==
    /\ adapter = "openai"
    /\ ws = None
    /\ connected = FALSE
    /\ stream_response = FALSE
    /\ receive_task = "none"
    /\ sender_task = "none"
    /\ event_queue = << >>
    /\ eventsPc = "none"
    /\ yielded = << >>
    /\ received = << >>
    /\ polls = 0
    /\ teardown = NoTeardown
    /\ closes = 0
    /\ ClientUnused

UnitsIdle ==
    /\ TokenIdle /\ PolicyIdle /\ HandoverIdle /\ ClientIdle /\ RelayIdle
    /\ ProcessorIdle /\ RegistryIdle /\ ToolIdle

vars == <<bridgeVars, unitVars>>


handlerVars == <<wsPc, data, hsPc, stream, running, tTask, aTask, closeCalls>>
escVars == <<publishes, esc, escResult, crm, storeOutcome>>
storeVars == <<store, putCount>>
callbackVars == <<response, callbacks, redirects>>

\* ---------------------------------------------------------- session registry
\* SessionManager.create_session: the registry after inserting under stream_sid
create_session(stream_sid) ==
    IF \E i \in 1..Len(sessions) : sessions[i] = stream_sid
    THEN sessions
    ELSE Append(sessions, stream_sid)

\* SessionState(...) as create_session builds it
SessionState(conversation_id, call_sid, stream_sid) ==
    [conversation_id |-> conversation_id, call_sid |-> call_sid,
     stream_sid |-> stream_sid, status |-> "active", handover_token |-> NoToken]

\* the first session of the registry, whatever its call
get_session_by_call_sid_any(call_sid) ==
    IF sessions = << >> THEN "" ELSE sessions[1]

\* SessionManager.get_session_by_call_sid: first session in insertion order, "" if none
get_session_by_call_sid(call_sid) ==
    LET hits == {i \in 1..Len(sessions) : session[sessions[i]].call_sid = call_sid}
    IN  IF hits = {} THEN ""
        ELSE sessions[CHOOSE i \in hits : \A j \in hits : i <= j]

\* the registry left untouched
remove_session_noop(stream_sid) == sessions

\* SessionManager.remove_session: the registry after pop(stream_sid, None)
remove_session(stream_sid) ==
    SelectSeq(sessions, LAMBDA k : k # stream_sid)

Registered == {sessions[i] : i \in 1..Len(sessions)}


\* ------------------------------------------------------------- initial state
NoEsc == [token |-> NoToken, contact |-> None, ticket |-> None, reason |-> None]
NoResult == [kind |-> "none", token |-> NoToken, reason |-> None]
NoResponse == [call_sid |-> None, kind |-> "none", send_digits |-> << >>]

\* the bridge before the websocket connection of the call
BridgeInit ==
    /\ sessions = << >>
    /\ session = [k \in {} |-> NoEsc]
    /\ store = {}
    /\ putCount = 0
    /\ hubspot_enabled \in BOOLEAN
    /\ wsPc = "idle"
    /\ data = None
    /\ hsPc = "none"
    /\ stream = ""
    /\ running = FALSE
    /\ tTask = "none"
    /\ aTask = "none"
    /\ closeCalls = 0
    /\ publishes = 0
    /\ esc = NoEsc
    /\ escResult = NoResult
    /\ crm = "none"
    /\ storeOutcome = "none"
    /\ response = NoResponse
    /\ callbacks = 0
    /\ redirects = [k \in StreamSids |-> 0]

Init == BridgeInit /\ UnitsIdle

\* no call is being bridged
BridgeIdle == BridgeInit /\ ~hubspot_enabled

\* --------------------------------------------------------- handover publisher
\* HandoverPayload as execute_escalation builds it and put_handover writes it
HandoverPayload(token, conversation_id, contact, ticket, reason) ==
    [token |-> token, conversation_id |-> conversation_id,
     hubspot_contact_id |-> contact, hubspot_ticket_id |-> ticket,
     escalation_reason |-> reason]

\* DynamoRepository.put_handover, table.put_item succeeding: the item replaces
\* any item of the same key
put_handover(payload) ==
    {p \in store : p.token # payload.token} \cup {payload}

\* _handle_openai_to_twilio's `except Exception` (stream_handler.py 208-210):
\* the flag is cleared and the loop's task ends
ai_loop_failed ==
    /\ running' = FALSE
    /\ aTask' = "done"

\* _handle_ai_escalation after execute_escalation returned (stream_handler.py
\* 300-310): the flag is cleared and the loop awaits its next event
ai_escalation_returned ==
    /\ running' = FALSE
    /\ aTask' = "events"

\* the success path storing a fixed reason instead of the argument
execute_escalation_stored_reason(token, reason, contact, ticket) ==
    /\ store' = put_handover(HandoverPayload(token, session[stream].conversation_id,
                                             contact, ticket, "error"))
    /\ putCount' = putCount + 1
    /\ storeOutcome' = "ok"
    /\ session' = [session EXCEPT ![stream].handover_token = token,
                                  ![stream].status = "escalating"]
    /\ escResult' = [kind |-> "returned", token |-> token, reason |-> reason]
    /\ ai_escalation_returned

\* execute_escalation, put_handover having succeeded (orchestrator.py 149-162):
\* the item is in the table, the token goes into session.metadata and is returned
execute_escalation_stored(token, reason, contact, ticket) ==
    /\ store' = put_handover(HandoverPayload(token, session[stream].conversation_id,
                                             contact, ticket, reason))
    /\ putCount' = putCount + 1
    /\ storeOutcome' = "ok"
    /\ session' = [session EXCEPT ![stream].handover_token = token,
                                  ![stream].status = "escalating"]
    /\ escResult' = [kind |-> "returned", token |-> token, reason |-> reason]
    /\ ai_escalation_returned

\* the failure path with the error logged and swallowed: the token is written
\* and returned although nothing was stored
execute_escalation_store_swallowed(token, reason) ==
    /\ UNCHANGED storeVars
    /\ storeOutcome' = "failed"
    /\ session' = [session EXCEPT ![stream].handover_token = token,
                                  ![stream].status = "escalating"]
    /\ escResult' = [kind |-> "returned", token |-> token, reason |-> reason]
    /\ ai_escalation_returned

\* the failure path with the token written before the store was asked
execute_escalation_store_eager(token, reason) ==
    /\ UNCHANGED storeVars
    /\ storeOutcome' = "failed"
    /\ session' = [session EXCEPT ![stream].handover_token = token,
                                  ![stream].status = "escalating"]
    /\ escResult' = [kind |-> "raised", token |-> NoToken, reason |-> reason]
    /\ ai_loop_failed

\* execute_escalation, put_handover having raised (dynamo_repository.py 71-73,
\* orchestrator.py 149): the error leaves execute_escalation and
\* _handle_ai_escalation and is caught by the AI loop; the session keeps the
\* status set on entry and gets no token
execute_escalation_store_failed(token, reason) ==
    /\ UNCHANGED storeVars
    /\ storeOutcome' = "failed"
    /\ session' = [session EXCEPT ![stream].status = "escalating"]
    /\ escResult' = [kind |-> "raised", token |-> NoToken, reason |-> reason]
    /\ ai_loop_failed

\* Orchestrator.execute_escalation from "Store handover in DynamoDB" to its end
\* (orchestrator.py 132-162; there is no await in it)
execute_escalation_store(token, reason, contact, ticket, crm_outcome) ==
    /\ crm' = crm_outcome
    /\ esc' = NoEsc
    /\ \/ execute_escalation_stored(token, reason, contact, ticket)
       \/ execute_escalation_store_failed(token, reason)

\* the loop test with the stop flag ignored
loop_must_break_never == FALSE

\* _handle_openai_to_twilio, `if not self._running: break`
loop_must_break == ~running

\* the tokens execute_escalation may draw: generate_token(settings.token_length)
escalation_token == generate_token(TokenLength)

\* Orchestrator.execute_escalation(session, reason) from its entry to its first
\* await (orchestrator.py 65-93): status, token, then either the first CRM call
\* or, the CRM being disabled, straight on to the store
execute_escalation(reason) ==
    /\ publishes' = publishes + 1
    /\ \E t \in escalation_token :
        IF hubspot_enabled
        THEN /\ esc' = [token |-> t, contact |-> None, ticket |-> None, reason |-> reason]
             /\ session' = [session EXCEPT ![stream].status = "escalating"]
             /\ escResult' = [kind |-> "running", token |-> NoToken, reason |-> reason]
             /\ aTask' = "upsert_contact"
             /\ UNCHANGED <<running, storeVars, crm, storeOutcome>>
        ELSE execute_escalation_store(t, reason, None, None, "disabled")

\* a CRM error that is not caught: it leaves execute_escalation before the store
crm_raised_propagates(contact, ticket, step) ==
    /\ crm' = step
    /\ esc' = NoEsc
    /\ escResult' = [kind |-> "raised", token |-> NoToken, reason |-> esc.reason]
    /\ ai_loop_failed
    /\ UNCHANGED <<storeVars, storeOutcome, session>>

\* execute_escalation's `except Exception` around the CRM calls (orchestrator.py
\* 126-128): the error is logged and the escalation goes on to the store with
\* the identifiers obtained so far
crm_raised(contact, ticket, step) ==
    execute_escalation_store(esc.token, esc.reason, contact, ticket, step)

\* hubspot_client.upsert_contact returns or raises (orchestrator.py 89-93)
UpsertContact ==
    /\ aTask = "upsert_contact"
    /\ hsPc = "wait"
    /\ \/ /\ esc' = [esc EXCEPT !.contact = "contact-1"]
          /\ aTask' = "create_ticket"
          /\ UNCHANGED <<running, session, storeVars, escResult, crm, storeOutcome>>
       \/ crm_raised(None, None, "upsert_contact")
    /\ UNCHANGED <<sessions, hubspot_enabled, unitVars, wsPc, data, hsPc, stream, tTask, closeCalls,
                   publishes, callbackVars>>

\* hubspot_client.create_ticket returns or raises (orchestrator.py 100-105)
CreateTicket ==
    /\ aTask = "create_ticket"
    /\ hsPc = "wait"
    /\ \/ /\ esc' = [esc EXCEPT !.ticket = "ticket-1"]
          /\ aTask' = "add_note"
          /\ UNCHANGED <<running, session, storeVars, escResult, crm, storeOutcome>>
       \/ crm_raised(esc.contact, None, "create_ticket")
    /\ UNCHANGED <<sessions, hubspot_enabled, unitVars, wsPc, data, hsPc, stream, tTask, closeCalls,
                   publishes, callbackVars>>

\* hubspot_client.add_note_to_ticket returns or raises (orchestrator.py 115-128);
\* either way the store step follows
AddNote ==
    /\ aTask = "add_note"
    /\ hsPc = "wait"
    /\ \/ execute_escalation_store(esc.token, esc.reason, esc.contact, esc.ticket, "ok")
       \/ crm_raised(esc.contact, esc.ticket, "add_note")
    /\ UNCHANGED <<sessions, hubspot_enabled, unitVars, wsPc, data, hsPc, stream, tTask, closeCalls,
                   publishes, callbackVars>>

\* ------------------------------------------------------- AI -> telephony loop
\* _handle_openai_to_twilio: one event taken from voice_client.events()
\* (stream_handler.py 149-206)
AiEvent ==
    /\ aTask = "events"
    /\ hsPc = "wait"
    /\ \E e \in AiEvents :
        IF loop_must_break
        THEN /\ aTask' = "done"
             /\ UNCHANGED <<running, session, storeVars, escVars>>
        ELSE CASE e = "response.audio.delta" ->
                    /\ aTask' = "send_json"
                    /\ UNCHANGED <<running, session, storeVars, escVars>>
               [] e = "escalation.triggered" ->
                    /\ publishes < MaxPublishes
                    /\ execute_escalation("agent_decision")
               [] OTHER ->
                    UNCHANGED <<aTask, running, session, storeVars, escVars>>
    /\ UNCHANGED <<sessions, hubspot_enabled, unitVars, wsPc, data, hsPc, stream, tTask, closeCalls,
                   callbackVars>>

\* websocket.send_json of an audio delta returns or raises (stream_handler.py 171)
AiSendJson ==
    /\ aTask = "send_json"
    /\ hsPc = "wait"
    /\ \/ /\ aTask' = "events"
          /\ UNCHANGED running
       \/ ai_loop_failed
    /\ UNCHANGED <<sessions, session, storeVars, hubspot_enabled, unitVars, wsPc, data, hsPc, stream,
                   tTask, closeCalls, escVars, callbackVars>>

\* voice_client.events() ends: the provider connection is gone and the queue is
\* empty (openai_realtime.py 321-325), so the `async for` ends
AiEventsEnd ==
    /\ aTask = "events"
    /\ hsPc = "wait"
    /\ aTask' = "done"
    /\ UNCHANGED <<sessions, session, storeVars, hubspot_enabled, unitVars, wsPc, data, hsPc, stream,
                   running, tTask, closeCalls, escVars, callbackVars>>

\* ------------------------------------------------------- telephony -> AI loop
\* the iterator going on whatever the flag says
twilio_loop_next_unconditional == "receive_text"

\* _iter_twilio_messages, `while self._running`: the task's next position
twilio_loop_next == IF running THEN "receive_text" ELSE "done"

\* _handle_twilio_to_openai: one message read from the telephony socket
\* (stream_handler.py 94-128)
TwilioFrame ==
    /\ tTask = "receive_text"
    /\ hsPc = "wait"
    /\ \E f \in TwilioFrames :
        CASE f = "media" ->
                /\ tTask' = "send_audio"
                /\ UNCHANGED running
          [] f = "stop" ->
                /\ running' = FALSE
                /\ tTask' = "done"
          [] f = "not_object" ->
                \* message.get on a JSON value that is no object: AttributeError,
                \* caught by the loop's outer `except Exception`
                /\ running' = FALSE
                /\ tTask' = "done"
          [] OTHER ->
                /\ tTask' = twilio_loop_next
                /\ UNCHANGED running
    /\ UNCHANGED <<sessions, session, storeVars, hubspot_enabled, unitVars, wsPc, data, hsPc, stream,
                   aTask, closeCalls, escVars, callbackVars>>

\* receive_text times out after a second: the loop tests the flag again
\* (stream_handler.py 132-137)
TwilioTimeout ==
    /\ tTask = "receive_text"
    /\ hsPc = "wait"
    /\ tTask' = twilio_loop_next
    /\ UNCHANGED <<sessions, session, storeVars, hubspot_enabled, unitVars, wsPc, data, hsPc, stream,
                   running, aTask, closeCalls, escVars, callbackVars>>

\* receive_text raises (the socket is closed): the iterator ends, the flag stays
\* (stream_handler.py 138-140)
TwilioReceiveError ==
    /\ tTask = "receive_text"
    /\ hsPc = "wait"
    /\ tTask' = "done"
    /\ UNCHANGED <<sessions, session, storeVars, hubspot_enabled, unitVars, wsPc, data, hsPc, stream,
                   running, aTask, closeCalls, escVars, callbackVars>>

\* voice_client.send_audio_base64 returns or raises (stream_handler.py 116, 126-128)
TwilioSendAudio ==
    /\ tTask = "send_audio"
    /\ hsPc = "wait"
    /\ \/ /\ tTask' = twilio_loop_next
          /\ UNCHANGED running
       \/ /\ running' = FALSE
          /\ tTask' = "done"
    /\ UNCHANGED <<sessions, session, storeVars, hubspot_enabled, unitVars, wsPc, data, hsPc, stream,
                   aTask, closeCalls, escVars, callbackVars>>

\* ------------------------------------------------------------- handle_stream
\* a bridging loop that has been started and has not ended
Executing(task) == task \notin (NotStarted \cup Finished)

\* teardown that forgets the client
cleanup_no_close ==
    /\ hsPc' = "closing"
    /\ UNCHANGED closeCalls

\* StreamHandler._cleanup up to its await of voice_client.close()
\* (stream_handler.py 312-321; _openai_task is never set)
cleanup ==
    /\ hsPc' = "closing"
    /\ closeCalls' = closeCalls + 1

\* voice_client.connect returns, and the two tasks are created, or raises, and
\* the handler goes to its `finally` (stream_handler.py 63-85)
Connect ==
    /\ hsPc = "connect"
    /\ \/ /\ hsPc' = "wait"
          /\ tTask' = "receive_text"
          /\ aTask' = "events"
          /\ UNCHANGED closeCalls
       \/ /\ cleanup
          /\ UNCHANGED <<tTask, aTask>>
    /\ UNCHANGED <<sessions, session, storeVars, hubspot_enabled, unitVars, wsPc, data, stream, running,
                   escVars, callbackVars>>

\* cancellation fired and forgotten
cancel_awaited_never == TRUE

\* handle_stream, `await task` after task.cancel() (stream_handler.py 77-80):
\* the handler goes on when no loop is executing any more
cancel_awaited == ~Executing(tTask) /\ ~Executing(aTask)

\* asyncio.wait(..., FIRST_COMPLETED) returns: the pending loop is cancelled
\* (stream_handler.py 72-78); with nothing pending the `finally` runs at once
WaitReturns ==
    /\ hsPc = "wait"
    /\ tTask \in Finished \/ aTask \in Finished
    /\ IF tTask \in Finished /\ aTask \in Finished
       THEN cleanup
       ELSE /\ hsPc' = "cancel"
            /\ UNCHANGED closeCalls
    /\ UNCHANGED <<sessions, session, storeVars, hubspot_enabled, unitVars, wsPc, data, stream, running,
                   tTask, aTask, escVars, callbackVars>>

\* the cancelled loop gets CancelledError at the await it is suspended in; an
\* execute_escalation in progress is abandoned there
TaskCancelled ==
    /\ hsPc = "cancel"
    /\ \/ /\ Executing(tTask)
          /\ tTask' = "cancelled"
          /\ UNCHANGED <<aTask, esc, escResult>>
       \/ /\ Executing(aTask)
          /\ aTask' = "cancelled"
          /\ esc' = NoEsc
          /\ escResult' = IF escResult.kind = "running"
                          THEN [escResult EXCEPT !.kind = "cancelled"]
                          ELSE escResult
          /\ UNCHANGED tTask
    /\ UNCHANGED <<sessions, session, storeVars, hubspot_enabled, unitVars, wsPc, data, hsPc, stream,
                   running, closeCalls, publishes, crm, storeOutcome, callbackVars>>

\* handle_stream's `finally` after the cancellation (stream_handler.py 84-85)
Cleanup ==
    /\ hsPc = "cancel"
    /\ cancel_awaited
    /\ cleanup
    /\ UNCHANGED <<sessions, session, storeVars, hubspot_enabled, unitVars, wsPc, data, stream, running,
                   tTask, aTask, escVars, callbackVars>>

\* --------------------------------------------------------- websocket endpoint
\* the endpoint's `finally` removing the session it created
websocket_finally_removes(stream_sid) == remove_session(stream_sid)

\* twilio_stream_websocket, `finally` (app.py 504-508): the registry as the
\* endpoint leaves it; the session is kept for the action URL
websocket_finally(stream_sid) == sessions

\* any message naming an event taken for the start
is_start_event_any(m) == m \in {"start", "media"}

\* `if start_message.get("event") != "start": return` (app.py 457-459), for a
\* message that has the stream's identifiers
is_start_event(m) == m = "start"

\* await websocket.accept() (app.py 439)
Accept ==
    /\ wsPc = "idle"
    /\ wsPc' = "first"
    /\ UNCHANGED <<sessions, session, storeVars, hubspot_enabled, unitVars, data, hsPc, stream, running,
                   tTask, aTask, closeCalls, escVars, callbackVars>>

\* the endpoint reads its first or second message (app.py 447-498): after an
\* optional "connected", a "start" with a callSid creates the session and the
\* handler and enters handle_stream up to its await of connect(); anything else
\* ends the endpoint
OpeningMessage ==
    /\ wsPc \in {"first", "second"}
    /\ \E m \in FirstMessages :
        /\ data' = m
        /\ CASE m = "connected" /\ wsPc = "first" ->
                   /\ wsPc' = "second"
                   /\ UNCHANGED <<sessions, session, hsPc, stream, running>>
             [] is_start_event(m) ->
                   \E stream_sid \in StreamSids, call_sid \in CallSids,
                      conversation_id \in ConversationIds :
                       /\ sessions' = create_session(stream_sid)
                       /\ session' = [k \in DOMAIN session \cup {stream_sid} |->
                                        IF k = stream_sid
                                        THEN SessionState(conversation_id, call_sid, stream_sid)
                                        ELSE session[k]]
                       /\ stream' = stream_sid
                       /\ running' = TRUE
                       /\ hsPc' = "connect"
                       /\ wsPc' = "stream"
             [] OTHER ->
                   /\ wsPc' = "closed"
                   /\ sessions' = websocket_finally(stream)
                   /\ UNCHANGED <<session, hsPc, stream, running>>
    /\ UNCHANGED <<storeVars, hubspot_enabled, unitVars, tTask, aTask, closeCalls, escVars,
                   callbackVars>>

\* voice_client.close() returns or raises, handle_stream and the endpoint end
\* (stream_handler.py 321-324, app.py 498-508)
CloseReturns ==
    /\ hsPc = "closing"
    /\ hsPc' = "done"
    /\ wsPc' = "closed"
    /\ sessions' = websocket_finally(stream)
    /\ UNCHANGED <<session, storeVars, hubspot_enabled, unitVars, data, stream, running, tTask, aTask,
                   closeCalls, escVars, callbackVars>>

\* ------------------------------------------------------ stream-ended callback
\* Number(..., send_digits=f"wwww{token}#") (app.py 199)
send_digits(token) == <<"w", "w", "w", "w">> \o token \o <<"#">>

\* the dial response of twilio_stream_ended (app.py 187-207)
RedirectResponse(call_sid, token) ==
    [call_sid |-> call_sid, kind |-> "redirect", send_digits |-> send_digits(token)]

\* the hang-up response of twilio_stream_ended (app.py 216-219)
GoodbyeResponse(call_sid) ==
    [call_sid |-> call_sid, kind |-> "goodbye", send_digits |-> << >>]

\* a redirect for every session found, token or not
escalation_active_any(stream_sid) == stream_sid # ""

\* twilio_stream_ended, `if session and session.metadata.get("handover_token")`
\* (app.py 175), the session given by its stream sid ("" when none was found)
escalation_active(stream_sid) ==
    /\ stream_sid # ""
    /\ session[stream_sid].handover_token # NoToken

\* twilio_stream_ended for a callback carrying call_sid (app.py 163-219)
twilio_stream_ended(call_sid) ==
    LET found == get_session_by_call_sid(call_sid)
    IN  /\ callbacks' = callbacks + 1
        /\ IF escalation_active(found)
           THEN /\ sessions' = IF session[found].stream_sid # ""
                                THEN remove_session(found) ELSE sessions
                /\ response' = RedirectResponse(call_sid, session[found].handover_token)
                /\ redirects' = [redirects EXCEPT ![found] = @ + 1]
           ELSE /\ sessions' = IF found # "" /\ session[found].stream_sid # ""
                                THEN remove_session(found) ELSE sessions
                /\ response' = GoodbyeResponse(call_sid)
                /\ UNCHANGED redirects
        /\ UNCHANGED <<session, storeVars, hubspot_enabled, handlerVars, escVars>>

\* Twilio posts to the action URL
StreamEnded ==
    /\ callbacks < MaxCallbacks
    /\ \E call_sid \in CallbackSids : twilio_stream_ended(call_sid)
    /\ UNCHANGED unitVars

\* ------------------------------------------------------------ specifications
Next ==
    \/ Accept
    \/ OpeningMessage
    \/ Connect
    \/ TwilioFrame
    \/ TwilioTimeout
    \/ TwilioReceiveError
    \/ TwilioSendAudio
    \/ AiEvent
    \/ AiSendJson
    \/ AiEventsEnd
    \/ UpsertContact
    \/ CreateTicket
    \/ AddNote
    \/ WaitReturns
    \/ TaskCancelled
    \/ Cleanup
    \/ CloseReturns
    \/ StreamEnded

Spec == Init /\ [][Next]_vars

\* the event loop runs every coroutine that is ready: handle_stream after a task
\* ended, the cancelled task, the teardown; close() returns or raises
HandlerFairness ==
    /\ WF_vars(WaitReturns)
    /\ WF_vars(TaskCancelled)
    /\ WF_vars(Cleanup)
    /\ WF_vars(CloseReturns)

FairSpec == Spec /\ HandlerFairness

\* wait_for(receive_text(), timeout=1.0) ends after a second at the latest
\* (stream_handler.py 134-137), and a send_audio_base64 call returns or raises
TelephonyFairness ==
    /\ WF_vars(TwilioTimeout)
    /\ WF_vars(TwilioSendAudio)

TimeoutFairSpec == Spec /\ HandlerFairness /\ TelephonyFairness

\* ============================================================ token generator
\* the lengths generate_token is called with
TokenInit ==
    /\ token_length \in 0..MaxTokenLength
    /\ generated = NoToken
    /\ BridgeIdle /\ RelayIdle /\ PolicyIdle /\ HandoverIdle /\ ClientIdle
    /\ ProcessorIdle /\ RegistryIdle /\ ToolIdle

\* token = generate_token(length) (token_generator.py 7-16)
GenerateToken ==
    /\ generated' \in generate_token(token_length)
    /\ UNCHANGED <<token_length, bridgeVars, relayVars, processorVars, registryVars, toolVars, policyVars, handoverVars, clientVars>>

TokenNext == GenerateToken

TokenSpec == TokenInit /\ [][TokenNext]_vars

\* ============================================================ escalation policy
\* `if len(session.transcript_buffer) > 10` and `[-10:]` (escalation.py 47-48)
TranscriptBufferLimit == 10

\* A transcript is the sequence of its words, as the separators of the text
\* delimit them; "\n" stands for a line break between two words.  "agents" is a
\* word of which "agent" is a part.
Words == {"agent", "AGENT", "Human", "Representative", "Operator", "person",
          "help", "real", "speak", "talk", "someone", "hello", "agents", "\n"}

\* the transcripts examined for keywords
Transcripts == UNION {[1..n -> Words] : n \in 0..MaxWords}

\* the transcripts of the session whose buffer is followed
SessionTranscripts == {<<"hello">>, <<"help">>, <<"an", "agent">>}

\* str.lower() on a word
lower(word) ==
    CASE word = "AGENT" -> "agent"
      [] word = "Human" -> "human"
      [] word = "Representative" -> "representative"
      [] word = "Operator" -> "operator"
      [] OTHER -> word

\* ESCALATION_KEYWORDS (escalation.py 12-21): \bw\b as <<w>>, \bv\b.*\bw\b as <<v, w>>
ESCALATION_KEYWORDS ==
    << <<"agent">>, <<"human">>, <<"representative">>, <<"person">>, <<"operator">>,
       <<"help", "real">>, <<"speak", "someone">>, <<"talk", "someone">> >>

\* re.search(pattern, text): a whole word, or a whole word followed on the same
\* line (`.` matches no line break) by another
re_search(pattern, text) ==
    IF Len(pattern) = 1
    THEN \E i \in 1..Len(text) : text[i] = pattern[1]
    ELSE \E i \in 1..Len(text), j \in 1..Len(text) :
            /\ i < j
            /\ text[i] = pattern[1]
            /\ text[j] = pattern[2]
            /\ \A k \in i..j : text[k] # "\n"

\* the transcript matched as it is spelled
transcript_lower_unchanged(transcript) == transcript

\* transcript.lower() (escalation.py 35)
transcript_lower(transcript) ==
    [i \in 1..Len(transcript) |-> lower(transcript[i])]

\* escalation.py 36-37: some pattern of the list is found in the lowered transcript
keyword_detected(transcript) ==
    \E n \in 1..Len(ESCALATION_KEYWORDS) :
        re_search(ESCALATION_KEYWORDS[n], transcript_lower(transcript))

\* escalation.py 45-48: the buffer after the append and the cut to its last 10
buffer_appended(buffer, transcript) ==
    LET longer == Append(buffer, transcript)
    IN  IF Len(longer) > TranscriptBufferLimit
        THEN SubSeq(longer, Len(longer) - TranscriptBufferLimit + 1, Len(longer))
        ELSE longer

\* check_escalation_needed(session, transcript) (escalation.py 24-56): on a
\* keyword the function returns before it reaches the append
check_escalation_needed(transcript) ==
    /\ heard' = Append(heard, transcript)
    /\ IF keyword_detected(transcript)
       THEN /\ verdict' = [escalate |-> TRUE, reason |-> "keyword_detected"]
            /\ UNCHANGED transcript_buffer
       ELSE /\ transcript_buffer' = buffer_appended(transcript_buffer, transcript)
            /\ verdict' = NoVerdict

\* one transcript of a call is passed to the policy (escalation_processor.py 93,
\* orchestrator.py 36)
Transcribed ==
    /\ Len(heard) < MaxCalls
    /\ \E t \in SessionTranscripts : check_escalation_needed(t)
    /\ UNCHANGED <<bridgeVars, relayVars, processorVars, registryVars, toolVars, tokenVars, handoverVars, clientVars>>

PolicyInit ==
    /\ BridgeIdle /\ RelayIdle /\ TokenIdle /\ PolicyIdle /\ HandoverIdle /\ ClientIdle
    /\ ProcessorIdle /\ RegistryIdle /\ ToolIdle

PolicyNext == Transcribed

PolicySpec == PolicyInit /\ [][PolicyNext]_vars

\* the policy is asked about one transcript of any wording
Utterance ==
    /\ heard = << >>
    /\ \E t \in Transcripts : check_escalation_needed(t)
    /\ UNCHANGED <<bridgeVars, relayVars, processorVars, registryVars, toolVars, tokenVars, handoverVars, clientVars>>

KeywordNext == Utterance

KeywordSpec == PolicyInit /\ [][KeywordNext]_vars

\* =============================================================== handover store
\* Time is counted in ticks, TicksPerSecond of them in a second; a datetime is
\* its number of ticks since the epoch.  The table hands a stored number back as
\* the number it was given, as the repository's unit tests have it.

\* r"^\d{10}$" (handler.py 74)
LambdaTokenLength == 10

\* EscalationReason members (types.py 19-25) and EscalationReason(value)
EscalationReason(value) == <<"EscalationReason", value>>

\* int(dt.timestamp()): whole seconds since the epoch
timestamp_int(dt) == dt \div TicksPerSecond

\* datetime.fromtimestamp(seconds, tz=UTC)
fromtimestamp(seconds) == seconds * TicksPerSecond

\* dt.isoformat(): the seconds and the fraction of a second, as text
isoformat(dt) == <<dt \div TicksPerSecond, dt % TicksPerSecond>>

\* datetime.fromisoformat(text)
fromisoformat(text) == text[1] * TicksPerSecond + text[2]

\* a token of LambdaTokenLength characters, all the same
Repeated(char) == [i \in 1..LambdaTokenLength |-> char]

\* the tokens handovers are stored under: token_length is 10, or, in a
\* deployment configured otherwise, 9
StoredTokens == {Repeated(char) : char \in SampledDigits} \cup {[i \in 1..9 |-> "0"]}

\* the payloads put_handover is given at the time `now`
Payloads(now) ==
    [token : StoredTokens, conversation_id : ConversationIds,
     created_at : {now}, expires_at : 0..MaxTick,
     hubspot_contact_id : {None, "contact-1"},
     escalation_reason : {EscalationReason("user_request"),
                          EscalationReason("agent_decision")}]

\* the item put_handover builds (dynamo_repository.py 51-63)
handover_item(payload) ==
    [token |-> payload.token,
     conversation_id |-> payload.conversation_id,
     created_at |-> isoformat(payload.created_at),
     expires_at |-> timestamp_int(payload.expires_at),
     hubspot_contact_id |-> payload.hubspot_contact_id,
     escalation_reason |-> payload.escalation_reason[2]]

\* table.put_item(Item=item): the item replaces any item of the same key
put_item(item) == {i \in table : i.token # item.token} \cup {item}

\* table.get_item(Key={"token": token}).get("Item"): the items found, none or one
get_item(token) == {i \in table : i.token = token}

\* no expiry test on read: the table's TTL process is relied upon
is_expired_never(item, now) == FALSE

\* `datetime.now(UTC) > expires_at` on the stored expiry (dynamo_repository.py 86-87)
is_expired(item, now) == now > fromtimestamp(item.expires_at)

\* the HandoverPayload get_handover builds from an item (dynamo_repository.py 91-103)
item_payload(item) ==
    [token |-> item.token,
     conversation_id |-> item.conversation_id,
     created_at |-> fromisoformat(item.created_at),
     expires_at |-> fromtimestamp(item.expires_at),
     hubspot_contact_id |-> item.hubspot_contact_id,
     escalation_reason |-> EscalationReason(item.escalation_reason)]

\* DynamoRepository.get_handover(token) with the table answering
\* (dynamo_repository.py 75-106)
get_handover(token) ==
    LET found == get_item(token)
        item == CHOOSE i \in found : TRUE
    IN  IF found = {} \/ is_expired(item, clock)
        THEN [NoReply EXCEPT !.op = "get_handover", !.token = token, !.kind = "None",
                             !.queried = TRUE, !.at = clock]
        ELSE [NoReply EXCEPT !.op = "get_handover", !.token = token, !.kind = "payload",
                             !.payload = <<item_payload(item)>>,
                             !.queried = TRUE, !.at = clock]

\* DynamoRepository.put_handover(payload), the table accepting the write
PutHandover ==
    /\ puts = << >>
    /\ \E payload \in Payloads(clock) :
        /\ table' = put_item(handover_item(payload))
        /\ puts' = Append(puts, payload)
    /\ reply' = NoReply
    /\ UNCHANGED <<clock, bridgeVars, relayVars, processorVars, registryVars, toolVars, tokenVars, policyVars, clientVars>>

\* time passes
Tick ==
    /\ clock < MaxTick
    /\ clock' = clock + 1
    /\ reply' = NoReply
    /\ UNCHANGED <<table, puts, bridgeVars, relayVars, processorVars, registryVars, toolVars, tokenVars, policyVars, clientVars>>

\* the table's TTL process deletes an item some time after its expires_at second
TtlPurge ==
    /\ \E item \in table :
        /\ item.expires_at < timestamp_int(clock)
        /\ table' = table \ {item}
    /\ reply' = NoReply
    /\ UNCHANGED <<clock, puts, bridgeVars, relayVars, processorVars, registryVars, toolVars, tokenVars, policyVars, clientVars>>

\* DynamoRepository.get_handover(token): it returns, or get_item raises a
\* ClientError, which is raised again (dynamo_repository.py 108-110)
GetHandover ==
    /\ \E token \in StoredTokens :
        \/ reply' = get_handover(token)
        \/ reply' = [NoReply EXCEPT !.op = "get_handover", !.token = token,
                                     !.kind = "raised", !.queried = TRUE, !.at = clock]
    /\ UNCHANGED <<table, clock, puts, bridgeVars, relayVars, processorVars, registryVars, toolVars, tokenVars, policyVars, clientVars>>

\* ------------------------------------------------ token validation Lambda
\* the characters \d matches in a str pattern: 0-9 and the other decimal digits
\* of Unicode, of which U+0663 (ARABIC-INDIC DIGIT THREE) is explored
DecimalDigits == {Digits[n] : n \in 1..Len(Digits)} \cup {"U+0663"}

\* characters str.strip() removes
Whitespace == {" ", "\n"}

\* text.strip()
RECURSIVE strip(_)
strip(text) ==
    IF text = << >> THEN text
    ELSE IF Head(text) \in Whitespace THEN strip(Tail(text))
    ELSE IF text[Len(text)] \in Whitespace THEN strip(SubSeq(text, 1, Len(text) - 1))
    ELSE text

\* validate_token (handler.py 61-74): re.match(r"^\d{10}$", token), where `$`
\* also matches before a line break that ends the string
validate_token(text) ==
    /\ text # << >>
    /\ \/ Len(text) = LambdaTokenLength
       \/ Len(text) = LambdaTokenLength + 1 /\ text[Len(text)] = "\n"
    /\ \A n \in 1..LambdaTokenLength : text[n] \in DecimalDigits

\* the failure responses of lambda_handler (handler.py 123-127, 140-144, 150-154)
LambdaFailure(parameter, error_message, asked) ==
    [NoReply EXCEPT !.op = "lambda_handler", !.token = parameter, !.kind = error_message,
                    !.route_to_queue = "fallback", !.queried = asked, !.at = clock]

\* the contact attributes lambda_handler returns (handler.py 157-168)
LambdaSuccess(parameter, item) ==
    [NoReply EXCEPT !.op = "lambda_handler", !.token = parameter, !.kind = "success",
                    !.payload = <<[conversation_id |-> item.conversation_id,
                                   hubspot_contact_id |-> item.hubspot_contact_id,
                                   escalation_reason |-> item.escalation_reason]>>,
                    !.route_to_queue = "escalation", !.queried = TRUE, !.at = clock]

\* lambda_handler for an event whose Parameters.token is `parameter`, the table
\* answering (handler.py 104-168); fetch_handover_payload (handler.py 77-97)
\* returns the item as it is stored
lambda_handler(parameter) ==
    LET stripped == strip(parameter)
        found == get_item(stripped)
    IN  IF stripped = << >>
        THEN LambdaFailure(parameter, "No token provided", FALSE)
        ELSE IF ~validate_token(stripped)
        THEN LambdaFailure(parameter, "Invalid token format", FALSE)
        ELSE IF found = {}
        THEN LambdaFailure(parameter, "Token not found or expired", TRUE)
        ELSE LambdaSuccess(parameter, CHOOSE i \in found : TRUE)

\* the values of Parameters.token: stored tokens, also between white space, and
\* tokens that are too short, too long, empty, blank, with a letter, with
\* hyphens, or made of digits that are not ASCII
EventTokens ==
    StoredTokens
    \cup {<<" ">> \o text \o <<"\n">> : text \in StoredTokens}
    \cup {Repeated("0") \o <<"0">>, << >>, <<" ">>,
          [Repeated("0") EXCEPT ![6] = "a"],
          [Repeated("0") EXCEPT ![4] = "-", ![8] = "-"],
          Repeated("U+0663")}

\* Amazon Connect invokes the Lambda; table.get_item answers or raises a
\* ClientError, which fetch_handover_payload turns into None (handler.py 99-101)
LambdaHandler ==
    /\ \E parameter \in EventTokens :
        \/ reply' = lambda_handler(parameter)
        \/ /\ validate_token(strip(parameter))
           /\ reply' = LambdaFailure(parameter, "Token not found or expired", TRUE)
    /\ UNCHANGED <<table, clock, puts, bridgeVars, relayVars, processorVars, registryVars, toolVars, tokenVars, policyVars, clientVars>>

HandoverInit ==
    /\ BridgeIdle /\ RelayIdle /\ TokenIdle /\ PolicyIdle /\ HandoverIdle /\ ClientIdle
    /\ ProcessorIdle /\ RegistryIdle /\ ToolIdle

HandoverNext ==
    \/ PutHandover
    \/ Tick
    \/ TtlPurge
    \/ GetHandover
    \/ LambdaHandler

HandoverSpec == HandoverInit /\ [][HandoverNext]_vars

\* ================================================================ voice client
\* the VoiceClient implementations (openai_realtime.py, nova_sonic.py)
Adapters == {"openai", "nova"}

\* the normalized events a receive loop queues
QueuedEvents == {"response.audio.delta", "response.done"}

\* audio as a client handles it: the samples `data` in an encoding at a rate (kHz)
Audio(encoding, rate, samples) == [encoding |-> encoding, rate |-> rate, data |-> samples]

\* a frame without audio
NoAudio == Audio("none", 0, "")

\* the payloads of Twilio's media messages: base64 of G.711 mu-law at 8 kHz
AudioPayloads == {Audio("ulaw/base64", 8, samples) : samples \in {"p1", "p2"}}

\* a frame handed to the provider connection: ws.send (openai_realtime.py 117),
\* input_stream.send (nova_sonic.py 205)
Frame(kind, content) == [kind |-> kind, content |-> content]

\* send_audio_base64's conversion (nova_sonic.py 303-326): base64 decoded,
\* mu-law to 16-bit linear PCM, 8 kHz to 16 kHz
ulaw_to_pcm16k(audio_b64) == Audio("lpcm", 16, audio_b64.data)

\* base64.b64encode(audio_bytes).decode("utf-8") (nova_sonic.py 345)
b64encode(audio) == Audio("lpcm/base64", audio.rate, audio.data)

\* session initialization that opens the audio content at once
initialize_session_eager ==
    <<Frame("sessionStart", NoAudio), Frame("promptStart", NoAudio),
      Frame("contentStart:TEXT", NoAudio), Frame("textInput", NoAudio),
      Frame("contentEnd", NoAudio), Frame("contentStart:AUDIO", NoAudio)>>

\* NovaClient._initialize_session (nova_sonic.py 120-167): session start, prompt
\* start, and the system prompt as one text content
initialize_session ==
    <<Frame("sessionStart", NoAudio), Frame("promptStart", NoAudio),
      Frame("contentStart:TEXT", NoAudio), Frame("textInput", NoAudio),
      Frame("contentEnd", NoAudio)>>

\* how a connect() call ended
ConnectCall(fault, outcome) == [fault |-> fault, outcome |-> outcome]

\* OpenAIRealtimeClient.connect (openai_realtime.py 46-76): every error is
\* raised again; the fields keep what the steps before the error had set
openai_connect ==
    \/ /\ ws' = "open" /\ receive_task' = "running" /\ eventsPc' = "waiting"
       /\ input_stream' = <<Frame("session.update", NoAudio), Frame("response.create", NoAudio)>>
       /\ connect_call' = ConnectCall("none", "returned")
    \/ /\ ws' = "open" /\ receive_task' = "running" /\ UNCHANGED eventsPc
       /\ input_stream' = <<Frame("session.update", NoAudio), Frame("response.create", NoAudio)>>
       /\ connect_call' = ConnectCall("greeting", "raised")
    \/ /\ ws' = "open" /\ UNCHANGED <<receive_task, eventsPc>>
       /\ input_stream' = <<Frame("session.update", NoAudio)>>
       /\ connect_call' = ConnectCall("session_init", "raised")
    \/ /\ UNCHANGED <<ws, receive_task, eventsPc, input_stream>>
       /\ connect_call' = ConnectCall("transport", "raised")

\* NovaClient.connect (nova_sonic.py 83-118): opening the stream may raise; an
\* error of input_stream.send while the initialization frames are sent is
\* caught and logged in _send_event (nova_sonic.py 204-212), so connect goes on
nova_connect ==
    \/ /\ \E fault \in {"none", "session_init"} :
            connect_call' = ConnectCall(fault, "returned")
       /\ stream_response' = TRUE
       /\ connected' = TRUE
       /\ input_stream' = initialize_session
       /\ receive_task' = "running"
       /\ sender_task' = "running"
       /\ eventsPc' = "waiting"
    \/ /\ connect_call' = ConnectCall("transport", "raised")
       /\ UNCHANGED <<stream_response, connected, input_stream, receive_task, sender_task,
                      eventsPc>>

\* connect(conversation_id), called once by handle_stream (stream_handler.py
\* 63); when it returns the bridge starts its loops and iterates events(), when
\* it raises the bridge goes to its teardown
ClientConnect ==
    /\ connect_call.outcome = "none"
    /\ receive_task = "none"
    /\ ws = None
    /\ ~stream_response
    /\ closes = 0
    /\ IF adapter = "openai"
       THEN /\ openai_connect
            /\ UNCHANGED <<connected, stream_response, sender_task>>
       ELSE /\ nova_connect
            /\ UNCHANGED ws
    /\ UNCHANGED <<adapter, event_queue, yielded, received, polls, teardown, closes,
                   audio_received, audio_input_queue, audio_stream_started, audio_bytes,
                   tool_results, bridgeVars, relayVars, processorVars, registryVars, toolVars, tokenVars, policyVars, handoverVars>>

\* the receive loop queues an event of the provider (openai_realtime.py 125-135,
\* nova_sonic.py 378-497)
ProviderEvent ==
    /\ receive_task = "running"
    /\ Len(received) < MaxEvents
    /\ \E e \in QueuedEvents :
        /\ event_queue' = Append(event_queue, e)
        /\ received' = Append(received, e)
    /\ UNCHANGED <<adapter, ws, connected, stream_response, receive_task, sender_task,
                   eventsPc, yielded, polls, teardown, closes,
                   connect_call, audioVars, tool_results,
                   bridgeVars, relayVars, processorVars, registryVars, toolVars, tokenVars, policyVars, handoverVars>>

\* the receive loop ends: the provider closed the connection or receiving failed
\* (openai_realtime.py 143-146, nova_sonic.py 504-513); neither adapter changes
\* a field or queues an event on the way out
ReceiveLoopEnds ==
    /\ receive_task = "running"
    /\ receive_task' = "done"
    /\ UNCHANGED <<adapter, ws, connected, stream_response, sender_task, event_queue,
                   eventsPc, yielded, received, polls, teardown, closes,
                   connect_call, audioVars, tool_results,
                   bridgeVars, relayVars, processorVars, registryVars, toolVars, tokenVars, policyVars, handoverVars>>

\* events(): queue.get() returns an event and the generator yields it
\* (openai_realtime.py 319-320, nova_sonic.py 561-562)
EventsYield ==
    /\ eventsPc = "waiting"
    /\ event_queue # << >>
    /\ yielded' = Append(yielded, Head(event_queue))
    /\ event_queue' = Tail(event_queue)
    /\ eventsPc' = "yielded"
    /\ UNCHANGED <<adapter, ws, connected, stream_response, receive_task, sender_task,
                   received, polls, teardown, closes,
                   connect_call, audioVars, tool_results,
                   bridgeVars, relayVars, processorVars, registryVars, toolVars, tokenVars, policyVars, handoverVars>>

\* events() is resumed after a yield: `while True` (openai_realtime.py 317),
\* `while self._connected` (nova_sonic.py 559)
EventsResume ==
    /\ eventsPc = "yielded"
    /\ eventsPc' = IF adapter = "nova" /\ ~connected THEN "ended" ELSE "waiting"
    /\ UNCHANGED <<adapter, ws, connected, stream_response, receive_task, sender_task,
                   event_queue, yielded, received, polls, teardown, closes,
                   connect_call, audioVars, tool_results,
                   bridgeVars, relayVars, processorVars, registryVars, toolVars, tokenVars, policyVars, handoverVars>>

\* events() after its 0.1 s wait on the empty queue timed out: does it end?
\* OpenAI: `if not self.ws or (self._receive_task and self._receive_task.done())`
\* (openai_realtime.py 321-326); Nova: `continue`, then `while self._connected`
\* (nova_sonic.py 559-564)
events_timeout_ends ==
    IF adapter = "openai"
    THEN ws = None \/ receive_task \in Finished
    ELSE ~connected

\* events(): wait_for(queue.get(), timeout=0.1) times out
EventsTimeout ==
    /\ eventsPc = "waiting"
    /\ event_queue = << >>
    /\ IF events_timeout_ends
       THEN /\ eventsPc' = "ended"
            /\ UNCHANGED polls
       ELSE /\ polls < MaxPolls
            /\ polls' = polls + 1
            /\ UNCHANGED eventsPc
    /\ UNCHANGED <<adapter, ws, connected, stream_response, receive_task, sender_task,
                   event_queue, yielded, received, teardown, closes,
                   connect_call, audioVars, tool_results,
                   bridgeVars, relayVars, processorVars, registryVars, toolVars, tokenVars, policyVars, handoverVars>>

\* close() keeping the socket it has closed
ws_after_close_kept == ws

\* OpenAIRealtimeClient.close, `self.ws = None` (openai_realtime.py 342)
ws_after_close == None

\* the number of tasks close() cancels: those that are not done
\* (openai_realtime.py 335-336, nova_sonic.py 580-581, 585-586)
close_cancels ==
    (IF receive_task = "running" THEN 1 ELSE 0) + (IF Executing(sender_task) THEN 1 ELSE 0)

\* NovaClient._send_event sends only on a connected stream (nova_sonic.py 189-191)
send_event_sends(is_connected) == stream_response /\ is_connected

\* the frames handed to the stream after NovaClient._send_event(frame)
\* (nova_sonic.py 183-205)
send_event(frame) ==
    IF send_event_sends(connected) THEN Append(input_stream, frame) ELSE input_stream

\* send_audio_base64(audio_b64), called by the telephony loop of the bridge
\* while it runs (stream_handler.py 116): OpenAI sends the payload as it is
\* (openai_realtime.py 166-180), Nova converts and queues it (nova_sonic.py
\* 294-329); each raises when the client is not connected
ClientSendAudio ==
    /\ connect_call.outcome = "returned"
    /\ closes = 0
    /\ Len(audio_received) < MaxChunks
    /\ \E audio_b64 \in AudioPayloads :
        /\ audio_received' = Append(audio_received, audio_b64)
        /\ IF adapter = "openai"
           THEN /\ input_stream' =
                      IF ws # None
                      THEN Append(input_stream, Frame("input_audio_buffer.append", audio_b64))
                      ELSE input_stream
                /\ UNCHANGED audio_input_queue
           ELSE /\ audio_input_queue' =
                      IF connected
                      THEN Append(audio_input_queue, ulaw_to_pcm16k(audio_b64))
                      ELSE audio_input_queue
                /\ UNCHANGED input_stream
    /\ UNCHANGED <<adapter, ws, connected, stream_response, receive_task, sender_task,
                   event_queue, eventsPc, yielded, received, polls, teardown, closes,
                   connect_call, audio_stream_started, audio_bytes, tool_results,
                   bridgeVars, relayVars, processorVars, registryVars, toolVars, tokenVars, policyVars, handoverVars>>

\* the frame of one chunk (nova_sonic.py 345-357)
audio_input(chunk) == Frame("audioInput", b64encode(chunk))

\* _process_audio_queue takes a chunk from the queue and calls _send_event: for
\* the audio contentStart if the audio content is not started, else for the
\* chunk (nova_sonic.py 333-357)
AudioDequeued ==
    /\ sender_task = "running"
    /\ connected
    /\ audio_input_queue # << >>
    /\ audio_bytes' = Head(audio_input_queue)
    /\ audio_input_queue' = Tail(audio_input_queue)
    /\ IF ~audio_stream_started
       THEN /\ input_stream' = send_event(Frame("contentStart:AUDIO", NoAudio))
            /\ sender_task' = "start_audio_content"
       ELSE /\ input_stream' = send_event(audio_input(Head(audio_input_queue)))
            /\ sender_task' = "audio_input"
    /\ UNCHANGED <<adapter, ws, connected, stream_response, receive_task,
                   event_queue, eventsPc, yielded, received, polls, teardown, closes,
                   connect_call, audio_received, audio_stream_started, tool_results,
                   bridgeVars, relayVars, processorVars, registryVars, toolVars, tokenVars, policyVars, handoverVars>>

\* _start_audio_content returns, whether input_stream.send returned or raised
\* (nova_sonic.py 204-212), and the chunk is sent (nova_sonic.py 341-357)
AudioContentStarted ==
    /\ sender_task = "start_audio_content"
    /\ audio_stream_started' = TRUE
    /\ input_stream' = send_event(audio_input(audio_bytes))
    /\ sender_task' = "audio_input"
    /\ UNCHANGED <<adapter, ws, connected, stream_response, receive_task,
                   event_queue, eventsPc, yielded, received, polls, teardown, closes,
                   connect_call, audio_received, audio_input_queue, audio_bytes, tool_results,
                   bridgeVars, relayVars, processorVars, registryVars, toolVars, tokenVars, policyVars, handoverVars>>

\* _send_event of the chunk returns and the sender waits on the queue again
\* (nova_sonic.py 333-337)
AudioInputSent ==
    /\ sender_task = "audio_input"
    /\ audio_bytes' = None
    /\ sender_task' = "running"
    /\ UNCHANGED <<adapter, ws, connected, stream_response, receive_task,
                   event_queue, eventsPc, yielded, received, polls, teardown, closes,
                   connect_call, audio_received, audio_input_queue, audio_stream_started,
                   input_stream, tool_results,
                   bridgeVars, relayVars, processorVars, registryVars, toolVars, tokenVars, policyVars, handoverVars>>

\* the frames of send_tool_result (openai_realtime.py 352-379, nova_sonic.py
\* 683-728)
tool_result_frames ==
    IF adapter = "openai"
    THEN <<Frame("conversation.item.create", NoAudio), Frame("response.create", NoAudio)>>
    ELSE <<Frame("contentStart:TOOL", NoAudio), Frame("toolResult", NoAudio),
           Frame("contentEnd", NoAudio)>>

\* the events a tool call's handler queues when the ToolResult says
\* triggers_escalation: Nova queues "escalation.triggered" (nova_sonic.py
\* 638-654), OpenAI's handler does not look at the field (openai_realtime.py
\* 273-289)
tool_escalation_events(triggers_escalation) ==
    IF adapter = "nova" /\ triggers_escalation
    THEN <<"escalation.triggered">>
    ELSE << >>

\* the provider calls a tool: the receive loop starts _handle_function_call
\* (openai_realtime.py 129-130) or _handle_tool_use (nova_sonic.py 425-426),
\* which awaits tool_executor.execute_tool and sends the result back
ToolExecuted ==
    /\ receive_task = "running"
    /\ Len(tool_results) < MaxToolCalls
    /\ \E triggers_escalation \in BOOLEAN :
        /\ tool_results' = Append(tool_results, triggers_escalation)
        /\ event_queue' = event_queue \o tool_escalation_events(triggers_escalation)
        /\ received' = received \o tool_escalation_events(triggers_escalation)
    /\ input_stream' = input_stream \o tool_result_frames
    /\ UNCHANGED <<adapter, ws, connected, stream_response, receive_task, sender_task,
                   eventsPc, yielded, polls, teardown, closes,
                   connect_call, audio_received, audio_input_queue, audio_stream_started,
                   audio_bytes, bridgeVars, relayVars, processorVars, registryVars, toolVars, tokenVars, policyVars, handoverVars>>

\* close() from its call to its return (openai_realtime.py 331-344,
\* nova_sonic.py 573-598): a cancelled task is awaited, so it has ended when
\* close() goes on
ClientClose ==
    /\ closes < MaxCloses
    /\ closes' = closes + 1
    /\ receive_task' = IF receive_task = "running" THEN "cancelled" ELSE receive_task
    /\ sender_task' = IF Executing(sender_task) THEN "cancelled" ELSE sender_task
    /\ audio_bytes' = None
    /\ IF adapter = "openai"
       THEN /\ ws' = IF ws # None THEN ws_after_close ELSE ws
            /\ teardown' = [teardown EXCEPT
                              !.cancels = @ + close_cancels,
                              !.socket_closes = @ + (IF ws # None THEN 1 ELSE 0)]
            /\ UNCHANGED <<connected, input_stream>>
       ELSE /\ connected' = FALSE
            /\ teardown' = [teardown EXCEPT
                              !.cancels = @ + close_cancels,
                              !.session_ends =
                                  @ + (IF stream_response /\ send_event_sends(connected')
                                       THEN 1 ELSE 0)]
            /\ input_stream' = IF stream_response /\ send_event_sends(connected')
                               THEN Append(input_stream, Frame("sessionEnd", NoAudio))
                               ELSE input_stream
            /\ UNCHANGED ws
    /\ UNCHANGED <<adapter, stream_response, event_queue, eventsPc, yielded, received,
                   polls, connect_call, audio_received, audio_input_queue,
                   audio_stream_started, tool_results,
                   bridgeVars, relayVars, processorVars, registryVars, toolVars, tokenVars, policyVars, handoverVars>>

\* a client of either implementation, as constructed
ClientInit ==
    /\ BridgeIdle /\ RelayIdle /\ TokenIdle /\ PolicyIdle /\ HandoverIdle
    /\ ProcessorIdle /\ RegistryIdle /\ ToolIdle
    /\ adapter \in Adapters
    /\ ws = None
    /\ connected = FALSE
    /\ stream_response = FALSE
    /\ receive_task = "none"
    /\ sender_task = "none"
    /\ event_queue = << >>
    /\ eventsPc = "none"
    /\ yielded = << >>
    /\ received = << >>
    /\ polls = 0
    /\ teardown = NoTeardown
    /\ closes = 0
    /\ ClientUnused

ClientNext ==
    \/ ClientConnect
    \/ ProviderEvent
    \/ ReceiveLoopEnds
    \/ EventsYield
    \/ EventsResume
    \/ EventsTimeout
    \/ ClientSendAudio
    \/ AudioDequeued
    \/ AudioContentStarted
    \/ AudioInputSent
    \/ ToolExecuted
    \/ ClientClose

ClientSpec == ClientInit /\ [][ClientNext]_vars

\* ----------------------------------------------------------- tool-call tasks
\* The handler of a tool call runs as a task of its own, created by the receive
\* loop and not kept anywhere: tool_tasks holds each task's position, "execute_tool"
\* (awaiting tool_executor.execute_tool), "send_tool_result" (between the sends
\* of send_tool_result), "done" or "failed" (ended by an exception).

\* send_tool_result's test on entry: `if not self.ws` (openai_realtime.py
\* 361-362), `if not self._connected` (nova_sonic.py 690-691)
tool_result_accepted == IF adapter = "openai" THEN ws # None ELSE connected

\* what one _send_event call of a tool task does to the frames sent: OpenAI's
\* raises without a socket (openai_realtime.py 114-117), Nova's returns without
\* sending when not connected (nova_sonic.py 189-191)
tool_send_event(sent) ==
    IF adapter = "openai"
    THEN IF ws # None THEN input_stream \o sent ELSE input_stream
    ELSE IF send_event_sends(connected) THEN input_stream \o sent ELSE input_stream

\* the receive loop meets a tool call and creates the task
\* (openai_realtime.py 129-130, nova_sonic.py 425-426)
ToolCalled ==
    /\ receive_task = "running"
    /\ Len(tool_tasks) < MaxToolTasks
    /\ tool_tasks' = Append(tool_tasks, "execute_tool")
    /\ UNCHANGED <<clientVars, bridgeVars, relayVars, processorVars, registryVars,
                   tokenVars, policyVars, handoverVars>>

\* execute_tool returns a result, with or without triggers_escalation, or
\* raises; the handler calls send_tool_result, from the try block or from its
\* `except Exception`. A send_tool_result that raises on entry ends the task:
\* raised in the try block it is caught and the second call raises the same
\* (openai_realtime.py 273-313, nova_sonic.py 632-681)
ToolReturns ==
    \E i \in DOMAIN tool_tasks :
        /\ tool_tasks[i] = "execute_tool"
        /\ \E outcome \in {"result", "triggers_escalation", "raised"} :
            /\ event_queue' = event_queue \o
                                 tool_escalation_events(outcome = "triggers_escalation")
            /\ received' = received \o
                                 tool_escalation_events(outcome = "triggers_escalation")
        /\ IF tool_result_accepted
           THEN /\ input_stream' = tool_send_event(<<Head(tool_result_frames)>>)
                /\ tool_tasks' = [tool_tasks EXCEPT ![i] = "send_tool_result"]
           ELSE /\ tool_tasks' = [tool_tasks EXCEPT ![i] = "failed"]
                /\ UNCHANGED input_stream
        /\ UNCHANGED <<adapter, ws, connected, stream_response, receive_task, sender_task,
                       eventsPc, yielded, polls, teardown, closes, connect_call,
                       audio_received, audio_input_queue, audio_stream_started, audio_bytes,
                       tool_results, bridgeVars, relayVars, processorVars, registryVars,
                       tokenVars, policyVars, handoverVars>>

\* the remaining sends of send_tool_result (openai_realtime.py 374-379,
\* nova_sonic.py 710-723): without a socket OpenAI's _send_event raises, the
\* handler's second send_tool_result raises on entry and the task ends
ToolResultSent ==
    \E i \in DOMAIN tool_tasks :
        /\ tool_tasks[i] = "send_tool_result"
        /\ input_stream' = tool_send_event(Tail(tool_result_frames))
        /\ tool_tasks' = [tool_tasks EXCEPT
                            ![i] = IF adapter = "openai" /\ ws = None THEN "failed" ELSE "done"]
        /\ UNCHANGED <<adapter, ws, connected, stream_response, receive_task, sender_task,
                       event_queue, eventsPc, yielded, received, polls, teardown, closes,
                       connect_call, audio_received, audio_input_queue, audio_stream_started,
                       audio_bytes, tool_results, bridgeVars, relayVars, processorVars,
                       registryVars, tokenVars, policyVars, handoverVars>>

ToolInit == ClientInit

ToolNext ==
    \/ ClientConnect
    \/ ReceiveLoopEnds
    \/ ToolCalled
    \/ ToolReturns
    \/ ToolResultSent
    \/ ClientClose

ToolSpec == ToolInit /\ [][ToolNext]_vars

\* ============================================================== bridging loops
\* A message of the telephony socket, by what json.loads makes of its text:
\* no JSON at all, a JSON value that is no object (an array), or an object with
\* its "event" member and the "payload" of its "media" member (None: no member)
TwilioMessage(json, event, payload) == [json |-> json, event |-> event, payload |-> payload]

\* the messages Twilio, or anyone connected to the socket, may send
RelayMessages ==
    {TwilioMessage("invalid", None, None), TwilioMessage("array", None, None),
     TwilioMessage("object", None, None), TwilioMessage("object", "start", None),
     TwilioMessage("object", "stop", None), TwilioMessage("object", "media", ""),
     TwilioMessage("object", "media", "p1"), TwilioMessage("object", "media", "p2")}

\* a normalized event of the voice client: its "type", "delta", "reason" and
\* "transcript" (event.get("transcript", "") is "" without the member)
VoiceEvent(type, delta, reason) ==
    [type |-> type, delta |-> delta, reason |-> reason, transcript |-> ""]

\* the event of a completed transcription of what the caller said
UserTranscript(transcript) ==
    [VoiceEvent("conversation.item.input_audio_transcription.completed", None, None)
        EXCEPT !.transcript = transcript]

\* the events a client queues
RelayEvents ==
    {VoiceEvent("response.audio.delta", "a1", None),
     VoiceEvent("response.audio.delta", "a2", None),
     VoiceEvent("response.audio.delta", "", None),
     VoiceEvent("response.done", None, None),
     VoiceEvent("error", None, None),
     UserTranscript("let me speak to a human agent"),
     VoiceEvent("escalation.triggered", None, "caller asked")}

\* positions of a bridging loop that has ended
RelayEnded == {"done", "failed", "cancelled"}

\* every value passes the test
is_truthy_always(value) == TRUE

\* `if payload:`, `if audio_b64:` (stream_handler.py 114, 164)
is_truthy(value) == value \notin {"", None}

\* the envelope without the stream sid
twilio_message_unaddressed(stream_sid, audio_b64) ==
    [event |-> "media", streamSid |-> "", payload |-> audio_b64]

\* twilio_message (stream_handler.py 166-170)
twilio_message(stream_sid, audio_b64) ==
    [event |-> "media", streamSid |-> stream_sid, payload |-> audio_b64]

\* _iter_twilio_messages, `while self._running` (stream_handler.py 132)
iter_twilio_messages_next == IF is_running THEN "receive_text" ELSE "done"

\* a loop's `except Exception` (stream_handler.py 126-128, 208-210)
relay_failed(task) ==
    /\ is_running' = FALSE
    /\ task' = "failed"

\* _handle_twilio_to_openai: receive_text returns a message and the loop body
\* runs to its next await (stream_handler.py 94-128)
RelayMessage ==
    /\ twilio_to_openai = "receive_text"
    /\ Len(messages) < MaxMessages
    /\ \E message \in RelayMessages :
        /\ messages' = Append(messages, message)
        /\ CASE message.json = "invalid" ->
                    \* json.JSONDecodeError: logged, the loop goes on
                    /\ twilio_to_openai' = iter_twilio_messages_next
                    /\ UNCHANGED <<is_running, audio_sent>>
             [] message.json = "array" ->
                    \* message.get: AttributeError, caught by `except Exception`
                    /\ relay_failed(twilio_to_openai)
                    /\ UNCHANGED audio_sent
             [] message.event = "media" /\ is_truthy(message.payload) ->
                    /\ audio_sent' = Append(audio_sent, message.payload)
                    /\ twilio_to_openai' = "send_audio"
                    /\ UNCHANGED is_running
             [] message.event = "stop" ->
                    /\ is_running' = FALSE
                    /\ twilio_to_openai' = "done"
                    /\ UNCHANGED audio_sent
             [] OTHER ->
                    /\ twilio_to_openai' = iter_twilio_messages_next
                    /\ UNCHANGED <<is_running, audio_sent>>
    /\ UNCHANGED <<relay_sid, openai_to_twilio, provider_queue, emitted, consumed,
                   media_sent, publisher, controls,
                   bridgeVars, processorVars, registryVars, toolVars,
                   tokenVars, policyVars, handoverVars, clientVars>>

\* receive_text times out after a second, or raises: the flag is tested again,
\* or the iterator ends with the flag as it is (stream_handler.py 136-140)
RelayReceiveEnds ==
    /\ twilio_to_openai = "receive_text"
    /\ \/ twilio_to_openai' = iter_twilio_messages_next
       \/ twilio_to_openai' = "done"
    /\ UNCHANGED <<is_running, relay_sid, openai_to_twilio, messages, audio_sent,
                   provider_queue, emitted, consumed, media_sent, publisher, controls,
                   bridgeVars, processorVars, registryVars, toolVars,
                   tokenVars, policyVars, handoverVars, clientVars>>

\* voice_client.send_audio_base64 returns or raises (stream_handler.py 116, 126-128)
RelaySendAudio ==
    /\ twilio_to_openai = "send_audio"
    /\ \/ /\ twilio_to_openai' = iter_twilio_messages_next
          /\ UNCHANGED is_running
       \/ relay_failed(twilio_to_openai)
    /\ UNCHANGED <<relay_sid, openai_to_twilio, messages, audio_sent,
                   provider_queue, emitted, consumed, media_sent, publisher, controls,
                   bridgeVars, processorVars, registryVars, toolVars,
                   tokenVars, policyVars, handoverVars, clientVars>>

\* the client's receive loop queues an event of the provider
\* (openai_realtime.py 125-135, nova_sonic.py 378-497)
RelayProviderEvent ==
    /\ Len(emitted) < MaxProviderEvents
    /\ \E event \in RelayEvents :
        /\ provider_queue' = Append(provider_queue, event)
        /\ emitted' = Append(emitted, [event |-> event, running |-> is_running])
    /\ UNCHANGED <<is_running, relay_sid, twilio_to_openai, openai_to_twilio, messages,
                   audio_sent, consumed, media_sent, publisher, controls,
                   bridgeVars, processorVars, registryVars, toolVars,
                   tokenVars, policyVars, handoverVars, clientVars>>

\* the client calls _handle_ai_escalation makes before the publisher, were it
\* to announce the transfer as _send_escalation_message does
ai_escalation_announced == <<"cancel_response", "send_user_message">>

\* the client calls _handle_ai_escalation makes before the publisher: none
\* (stream_handler.py 284-298)
ai_escalation_controls == << >>

\* the publisher called with KeywordDetected for every transcript that has text
handle_input_transcript_escalating(transcript) ==
    IF transcript # "" THEN <<"keyword_detected">> ELSE << >>

\* the execute_escalation calls of _handle_input_transcript: none, the
\* transcript is logged and added to the trace (stream_handler.py 212-229)
handle_input_transcript(transcript) == << >>

\* the loop ended by an `error` event
after_error_event_ended == "done"

\* `elif event_type == "error"`: logged, the loop awaits the next event
\* (stream_handler.py 196-197)
after_error_event == "events"

\* _handle_openai_to_twilio: events() yields the oldest queued event and the
\* loop body runs to its next await (stream_handler.py 149-206)
RelayEvent ==
    /\ openai_to_twilio = "events"
    /\ provider_queue # << >>
    /\ LET event == Head(provider_queue)
       IN  /\ provider_queue' = Tail(provider_queue)
           /\ consumed' = Append(consumed, [event |-> event, running |-> is_running])
           /\ IF ~is_running
              THEN /\ openai_to_twilio' = "done"
                   /\ UNCHANGED <<media_sent, publisher, controls>>
              ELSE CASE event.type = "response.audio.delta" /\ is_truthy(event.delta) ->
                          /\ media_sent' = Append(media_sent,
                                                  twilio_message(relay_sid, event.delta))
                          /\ openai_to_twilio' = "send_json"
                          /\ UNCHANGED <<publisher, controls>>
                     [] event.type = "escalation.triggered" ->
                          /\ controls' = controls \o ai_escalation_controls
                          /\ publisher' = [calls |-> Append(publisher.calls, "agent_decision"),
                                           state |-> "running"]
                          /\ openai_to_twilio' = "execute_escalation"
                          /\ UNCHANGED media_sent
                     [] event.type = "error" ->
                          /\ openai_to_twilio' = after_error_event
                          /\ UNCHANGED <<media_sent, publisher, controls>>
                     [] event.type = "conversation.item.input_audio_transcription.completed" ->
                          /\ publisher' =
                                [publisher EXCEPT
                                    !.calls = @ \o handle_input_transcript(event.transcript)]
                          /\ UNCHANGED <<openai_to_twilio, media_sent, controls>>
                     [] OTHER ->
                          UNCHANGED <<openai_to_twilio, media_sent, publisher, controls>>
    /\ UNCHANGED <<is_running, relay_sid, twilio_to_openai, messages, audio_sent, emitted,
                   bridgeVars, processorVars, registryVars, toolVars,
                   tokenVars, policyVars, handoverVars, clientVars>>

\* websocket.send_json returns or raises (stream_handler.py 171, 208-210)
RelaySendJson ==
    /\ openai_to_twilio = "send_json"
    /\ \/ /\ openai_to_twilio' = "events"
          /\ UNCHANGED is_running
       \/ relay_failed(openai_to_twilio)
    /\ UNCHANGED <<relay_sid, twilio_to_openai, messages, audio_sent, provider_queue,
                   emitted, consumed, media_sent, publisher, controls,
                   bridgeVars, processorVars, registryVars, toolVars,
                   tokenVars, policyVars, handoverVars, clientVars>>

\* orchestrator.execute_escalation returns, and _handle_ai_escalation clears the
\* flag (stream_handler.py 298-310), or raises into the loop's `except Exception`
RelayEscalated ==
    /\ openai_to_twilio = "execute_escalation"
    /\ \/ /\ publisher' = [publisher EXCEPT !.state = "returned"]
          /\ is_running' = FALSE
          /\ openai_to_twilio' = "events"
       \/ /\ publisher' = [publisher EXCEPT !.state = "raised"]
          /\ relay_failed(openai_to_twilio)
    /\ UNCHANGED <<relay_sid, twilio_to_openai, messages, audio_sent, provider_queue,
                   emitted, consumed, media_sent, controls,
                   bridgeVars, processorVars, registryVars, toolVars,
                   tokenVars, policyVars, handoverVars, clientVars>>

\* events() ends: the provider connection is gone and the queue is empty
\* (openai_realtime.py 321-325)
RelayEventsEnd ==
    /\ openai_to_twilio = "events"
    /\ provider_queue = << >>
    /\ openai_to_twilio' = "done"
    /\ UNCHANGED <<is_running, relay_sid, twilio_to_openai, messages, audio_sent,
                   provider_queue, emitted, consumed, media_sent, publisher, controls,
                   bridgeVars, processorVars, registryVars, toolVars,
                   tokenVars, policyVars, handoverVars, clientVars>>

\* handle_stream after asyncio.wait returned: the loop still pending is cancelled
\* at the await it is suspended in (stream_handler.py 72-80)
RelayCancel ==
    /\ \/ /\ twilio_to_openai \in RelayEnded
          /\ openai_to_twilio \notin RelayEnded
          /\ openai_to_twilio' = "cancelled"
          /\ publisher' = IF openai_to_twilio = "execute_escalation"
                          THEN [publisher EXCEPT !.state = "cancelled"]
                          ELSE publisher
          /\ UNCHANGED twilio_to_openai
       \/ /\ openai_to_twilio \in RelayEnded
          /\ twilio_to_openai \notin RelayEnded
          /\ twilio_to_openai' = "cancelled"
          /\ UNCHANGED <<openai_to_twilio, publisher>>
    /\ UNCHANGED <<is_running, relay_sid, messages, audio_sent, provider_queue, emitted,
                   consumed, media_sent, controls,
                   bridgeVars, processorVars, registryVars, toolVars,
                   tokenVars, policyVars, handoverVars, clientVars>>

\* handle_stream has connected the client and created the two tasks
\* (stream_handler.py 60-69)
RelayInit ==
    /\ BridgeIdle /\ TokenIdle /\ PolicyIdle /\ HandoverIdle /\ ClientIdle
    /\ ProcessorIdle /\ RegistryIdle /\ ToolIdle
    /\ is_running = TRUE
    /\ relay_sid = "MZ1"
    /\ twilio_to_openai = "receive_text"
    /\ openai_to_twilio = "events"
    /\ messages = << >>
    /\ audio_sent = << >>
    /\ provider_queue = << >>
    /\ emitted = << >>
    /\ consumed = << >>
    /\ media_sent = << >>
    /\ publisher = NoPublisher
    /\ controls = << >>

RelayNext ==
    \/ RelayMessage
    \/ RelayReceiveEnds
    \/ RelaySendAudio
    \/ RelayProviderEvent
    \/ RelayEvent
    \/ RelaySendJson
    \/ RelayEscalated
    \/ RelayEventsEnd
    \/ RelayCancel

RelaySpec == RelayInit /\ [][RelayNext]_vars

\* ============================================================ session registry
\* The SessionManager of the process (session_manager.py) under the calls made
\* on it for several streams: the websocket endpoint creates a session per
\* stream, the publisher escalates one, the stream-ended callback looks one up
\* by its call and removes it.  Twilio gives every stream a stream sid of its
\* own; a call may have more than one stream.
\* SessionManager.get_session: self.sessions.get(stream_sid)
get_session(stream_sid) ==
    IF stream_sid \in Registered THEN session[stream_sid] ELSE NoSession

\* the streams that have had a session
Streams == DOMAIN session

\* twilio_stream_websocket reads the start message of a new stream and creates
\* its session (app.py 461-468, session_manager.py 19-50)
CreateSession ==
    /\ \E stream_sid \in StreamSids \ Streams, call_sid \in CallSids,
          conversation_id \in ConversationIds :
        /\ sessions' = create_session(stream_sid)
        /\ session' = [k \in DOMAIN session \cup {stream_sid} |->
                         IF k = stream_sid
                         THEN SessionState(conversation_id, call_sid, stream_sid)
                         ELSE session[k]]
        /\ registry_call' = RegistryCall("create_session", call_sid, stream_sid,
                                         session'[stream_sid])
    /\ UNCHANGED <<storeVars, hubspot_enabled, handlerVars, escVars, callbackVars,
                   relayVars, processorVars, toolVars, tokenVars, policyVars,
                   handoverVars, clientVars>>

\* a lookup by stream sid (session_manager.py 52-54)
GetSession ==
    /\ \E stream_sid \in StreamSids :
        registry_call' = RegistryCall("get_session", get_session(stream_sid).call_sid,
                                      stream_sid, get_session(stream_sid))
    /\ UNCHANGED <<bridgeVars, relayVars, processorVars, toolVars, tokenVars, policyVars,
                   handoverVars, clientVars>>

\* a lookup by call sid (session_manager.py 56-68)
GetSessionByCallSid ==
    /\ \E call_sid \in CallbackSids :
        registry_call' = RegistryCall("get_session_by_call_sid", call_sid, "",
                                      get_session(get_session_by_call_sid(call_sid)))
    /\ UNCHANGED <<bridgeVars, relayVars, processorVars, toolVars, tokenVars, policyVars,
                   handoverVars, clientVars>>

\* remove_session(stream_sid) for a stream with or without a session
\* (session_manager.py 76-87)
RemoveSession ==
    /\ \E stream_sid \in StreamSids :
        /\ sessions' = remove_session(stream_sid)
        /\ registry_call' = RegistryCall("remove_session", get_session(stream_sid).call_sid,
                                         stream_sid, get_session(stream_sid))
    /\ UNCHANGED <<session, storeVars, hubspot_enabled, handlerVars, escVars, callbackVars,
                   relayVars, processorVars, toolVars, tokenVars, policyVars,
                   handoverVars, clientVars>>

\* execute_escalation on the session of a stream: the status on entry, and the
\* token once the payload is stored, if it gets that far (orchestrator.py 65-66,
\* 149-152)
EscalateSession ==
    /\ \E stream_sid \in Registered, token \in escalation_token \cup {NoToken} :
        /\ session[stream_sid].handover_token = NoToken
        /\ session' = [session EXCEPT ![stream_sid].status = "escalating",
                                      ![stream_sid].handover_token = token]
        /\ registry_call' = RegistryCall("execute_escalation", session[stream_sid].call_sid,
                                         stream_sid, session'[stream_sid])
    /\ UNCHANGED <<sessions, storeVars, hubspot_enabled, handlerVars, escVars, callbackVars,
                   relayVars, processorVars, toolVars, tokenVars, policyVars,
                   handoverVars, clientVars>>

\* a stream that has had a session ends and Twilio posts the call's sid to the
\* action URL, or a callback without a CallSid arrives (app.py 148-219)
SessionStreamEnded ==
    /\ callbacks < MaxCallbacks
    /\ \E stream_sid \in Streams \cup {""} :
        LET call_sid == IF stream_sid = "" THEN "unknown" ELSE session[stream_sid].call_sid
        IN  /\ twilio_stream_ended(call_sid)
            /\ registry_call' = RegistryCall("twilio_stream_ended", call_sid, stream_sid,
                                             get_session(get_session_by_call_sid(call_sid)))
    /\ UNCHANGED <<relayVars, processorVars, toolVars, tokenVars, policyVars,
                   handoverVars, clientVars>>

RegistryInit ==
    /\ BridgeIdle /\ RelayIdle /\ TokenIdle /\ PolicyIdle /\ HandoverIdle /\ ClientIdle
    /\ ProcessorIdle /\ RegistryIdle /\ ToolIdle

RegistryNext ==
    \/ CreateSession
    \/ GetSession
    \/ GetSessionByCallSid
    \/ RemoveSession
    \/ EscalateSession
    \/ SessionStreamEnded

RegistrySpec == RegistryInit /\ [][RegistryNext]_vars

\* ======================================================== escalation processor
\* EscalationProcessor (services/pipecat/escalation_processor.py).  process_frame
\* is a coroutine: a call suspended in its await of the callback leaves the
\* processor to the calls made meanwhile.
\* a pipecat frame: its class and, for a frame of text, the words of the text
PipelineFrame(kind, text) == [kind |-> kind, text |-> text]

\* the frames a pipeline hands to the processor
ProcessorFrames ==
    {PipelineFrame("TranscriptionFrame", t) : t \in {<< >>, <<"hello">>, <<"an", "agent">>}}
        \cup {PipelineFrame("InterimTranscriptionFrame", <<"an", "agent">>),
              PipelineFrame("InputAudioRawFrame", << >>)}

\* self.escalation_message, the default text (escalation_processor.py 59-62)
escalation_message == <<"Let", "me", "transfer", "you", "now">>

\* every frame of transcribed text taken for a final transcription
is_transcription_any(frame) ==
    frame.kind \in {"TranscriptionFrame", "InterimTranscriptionFrame"}

\* isinstance(frame, TranscriptionFrame) and not isinstance(frame,
\* InterimTranscriptionFrame) (escalation_processor.py 81)
is_transcription(frame) == frame.kind = "TranscriptionFrame"

\* push_frame(frame) in the process_frame call of the n-th frame
push_frame(frame, n) == Append(pushed, [frame |-> frame, of |-> n])

\* the callback has failed and the flag is left set
escalation_failed_pending == TRUE

\* _pending_escalation after the callback returned False or raised
\* (escalation_processor.py 138-148)
escalation_failed == FALSE

\* process_frame(frame, direction) from its call to its return or to its await
\* of the callback (escalation_processor.py 66-107, 150-151)
ProcessFrame ==
    /\ Len(frames) < MaxFrames
    /\ \E frame \in ProcessorFrames :
        LET n == Len(frames) + 1
        IN  /\ frames' = Append(frames, frame)
            /\ IF escalation_triggered
               THEN /\ pushed' = push_frame(frame, n)
                    /\ UNCHANGED <<pending_escalation, on_escalation, policyVars>>
               ELSE IF is_transcription(frame) /\ frame.text # << >>
               THEN /\ check_escalation_needed(frame.text)
                    /\ IF verdict'.escalate /\ ~pending_escalation
                       THEN /\ pending_escalation' = TRUE
                            /\ on_escalation' =
                                  Append(on_escalation,
                                         [of |-> n, transcript |-> frame.text,
                                          outcome |-> "awaited"])
                            /\ UNCHANGED pushed
                       ELSE /\ pushed' = push_frame(frame, n)
                            /\ UNCHANGED <<pending_escalation, on_escalation>>
               ELSE /\ pushed' = push_frame(frame, n)
                    /\ UNCHANGED <<pending_escalation, on_escalation, policyVars>>
    /\ UNCHANGED <<escalation_triggered, bridgeVars, relayVars, registryVars, toolVars,
                   tokenVars, handoverVars, clientVars>>

\* the callback returns True or False, or raises, and process_frame runs to its
\* return (escalation_processor.py 107-151)
EscalationReturns ==
    /\ \E i \in DOMAIN on_escalation, outcome \in {"True", "False", "raised"} :
        /\ on_escalation[i].outcome = "awaited"
        /\ on_escalation' = [on_escalation EXCEPT ![i].outcome = outcome]
        /\ IF outcome = "True"
           THEN /\ escalation_triggered' = TRUE
                /\ pushed' = pushed \o
                      << [frame |-> PipelineFrame("TTSSpeakFrame", escalation_message),
                          of |-> on_escalation[i].of],
                         [frame |-> PipelineFrame("EndFrame", << >>),
                          of |-> on_escalation[i].of] >>
                /\ UNCHANGED pending_escalation
           ELSE /\ pending_escalation' = escalation_failed
                /\ pushed' = push_frame(frames[on_escalation[i].of], on_escalation[i].of)
                /\ UNCHANGED escalation_triggered
    /\ UNCHANGED <<frames, bridgeVars, relayVars, registryVars, toolVars,
                   tokenVars, policyVars, handoverVars, clientVars>>

ProcessorInit ==
    /\ BridgeIdle /\ RelayIdle /\ TokenIdle /\ PolicyIdle /\ HandoverIdle /\ ClientIdle
    /\ ProcessorIdle /\ RegistryIdle /\ ToolIdle

ProcessorNext ==
    \/ ProcessFrame
    \/ EscalationReturns

ProcessorSpec == ProcessorInit /\ [][ProcessorNext]_vars

\* -------------------------------------------------------------------- claims
\* handle_stream is about to end: a bridging loop has exited (a "stop" frame, the
\* event sequence ending, an exception in a loop) or connect() has raised
RunEnding ==
    \/ hsPc \in {"cancel", "closing"}
    \/ hsPc = "wait" /\ (tTask \in Finished \/ aTask \in Finished)

\* C1: every run of handle_stream that a loop's exit or a failed connect() ends
\* terminates, and voice_client.close() is called exactly once in it: never
\* twice, and once when the run is over.
C1_CloseExactlyOnce ==
    /\ [](closeCalls <= 1)
    /\ [](hsPc = "done" => closeCalls = 1)
    /\ (RunEnding ~> hsPc = "done")

C1_Witness ==
    /\ hsPc = "done"
    /\ closeCalls = 1
    /\ aTask = "done"
    /\ tTask = "cancelled"

\* C2: while close() is running or has finished, no bridging loop of the call
\* is executing: the loop that was pending has been cancelled, and the
\* cancellation has completed.
C2_NoLoopDuringClose ==
    hsPc \in {"closing", "done"} => ~Executing(tTask) /\ ~Executing(aTask)

C2_Witness ==
    /\ hsPc = "closing"
    /\ tTask = "done"
    /\ aTask = "cancelled"

\* C3: whatever events the handler consumes, the publisher is invoked at most
\* once for the call, so at most one token is persisted and the session's token
\* is the one persisted.
C3_PublishAtMostOnce ==
    /\ publishes <= 1
    /\ putCount <= 1
    /\ Cardinality(store) <= 1
    /\ \A k \in DOMAIN session :
        session[k].handover_token # NoToken =>
            store = {p \in store : p.token = session[k].handover_token}

\* an event that followed the escalation has been consumed: the loop broke
C3_Witness ==
    /\ publishes = 1
    /\ storeOutcome = "ok"
    /\ aTask = "done"
    /\ hsPc = "wait"

\* C4: a session enters the registry when the stream starts, and a step removes
\* a session from the registry only if it is a stream-ended callback for that
\* session's call: neither the teardown nor the endpoint's exit removes it.
C4_SessionKeptUntilCallback ==
    [][ /\ (stream = "" /\ stream' # "") => stream' \in Registered'
        /\ \A k \in Registered :
             k \notin Registered' =>
                /\ callbacks' = callbacks + 1
                /\ response'.call_sid = session[k].call_sid ]_vars

\* the endpoint has exited, a callback for another call has run, the session is there
C4_Witness ==
    /\ wsPc = "closed"
    /\ hsPc = "done"
    /\ callbacks > 0
    /\ stream \in Registered

C7_EscalationPostcondition ==
    escResult.kind = "returned" =>
        LET t == escResult.token
        IN  /\ Len(t) = TokenLength
            /\ \A i \in 1..Len(t) : \E d \in 1..Len(Digits) : t[i] = Digits[d]
            /\ session[stream].status = "escalating"
            /\ session[stream].handover_token = t
            /\ putCount = 1
            /\ Cardinality({p \in store : p.token = t}) = 1
            /\ \A p \in store :
                 p.token = t =>
                    /\ p.conversation_id = session[stream].conversation_id
                    /\ p.escalation_reason = escResult.reason

C7_Witness ==
    /\ escResult.kind = "returned"
    /\ escResult.reason = "agent_decision"
    /\ crm = "ok"

\* the CRM identifiers execute_escalation had obtained when its CRM steps ended
ObtainedContact == IF crm \in {"create_ticket", "add_note", "ok"} THEN "contact-1" ELSE None
ObtainedTicket == IF crm \in {"add_note", "ok"} THEN "ticket-1" ELSE None

\* C8: with the CRM disabled, or a CRM step having raised, execute_escalation
\* goes on to the store; the store accepting the write, the payload is
\* persisted, the token is written into the session and returned, and the CRM
\* identifiers that were not obtained are stored as null.
C8_CrmFailureSwallowed ==
    crm \in {"disabled", "upsert_contact", "create_ticket", "add_note"} =>
        /\ storeOutcome \in {"ok", "failed"}
        /\ storeOutcome = "ok" =>
             /\ escResult.kind = "returned"
             /\ session[stream].handover_token = escResult.token
             /\ \E p \in store :
                  /\ p.token = escResult.token
                  /\ p.hubspot_contact_id = ObtainedContact
                  /\ p.hubspot_ticket_id = ObtainedTicket

\* the ticket could not be created: the contact id is stored, the ticket id is null
C8_Witness ==
    /\ crm = "create_ticket"
    /\ storeOutcome = "ok"
    /\ escResult.kind = "returned"
    /\ \E p \in store : p.hubspot_contact_id = "contact-1" /\ p.hubspot_ticket_id = None

\* C9: if put_handover fails, execute_escalation raises and the session's
\* metadata gets no handover token (and nothing is stored).
C9_StoreFailurePropagates ==
    storeOutcome = "failed" =>
        /\ escResult.kind = "raised"
        /\ session[stream].handover_token = NoToken
        /\ store = {}

C9_Witness ==
    /\ storeOutcome = "failed"
    /\ escResult.kind = "raised"
    /\ crm = "ok"

\* C10: after a store failure in an AI-triggered escalation the AI loop has
\* ended with the stop flag set and no token in the session, the handler comes
\* to its end, and a stream-ended callback for the call returns the goodbye
\* response.
C10_StoreFailureGoodbye ==
    /\ [](storeOutcome = "failed" =>
            /\ ~running
            /\ aTask = "done"
            /\ session[stream].handover_token = NoToken)
    /\ (storeOutcome = "failed" ~> hsPc = "done")
    /\ [][ (storeOutcome = "failed" /\ twilio_stream_ended(session[stream].call_sid))
             => response' = GoodbyeResponse(session[stream].call_sid) ]_vars

C10_Witness ==
    /\ storeOutcome = "failed"
    /\ hsPc = "done"
    /\ response = GoodbyeResponse(session[stream].call_sid)
    /\ stream \notin Registered

\* C11: for every configured length n, generate_token(n) returns a string of
\* exactly n characters, each of them an ASCII digit "0".."9".
C11_TokenShape ==
    [][ GenerateToken =>
          /\ Len(generated') = token_length
          /\ \A i \in 1..Len(generated') :
                generated'[i] \in {"0", "1", "2", "3", "4", "5", "6", "7", "8", "9"} ]_vars

C11_Witness ==
    /\ token_length = MaxTokenLength
    /\ Len(generated) = MaxTokenLength
    /\ generated[1] # generated[MaxTokenLength]

\* C12: after N calls of check_escalation_needed on a session, transcript_buffer
\* has at most 10 elements and holds the most recent min(N, 10) transcripts
\* passed, in the order they were passed.
C12_BufferHoldsLastTen ==
    LET N == Len(heard)
        kept == IF N < 10 THEN N ELSE 10
    IN  /\ Len(transcript_buffer) <= 10
        /\ transcript_buffer = SubSeq(heard, N - kept + 1, N)

\* C13: every call check_escalation_needed(session, t), whatever its verdict,
\* appends t to session.transcript_buffer and cuts the buffer to its last 10, so
\* the transcript that triggers the escalation is the last one of the buffer.
C13_EveryCallAppends ==
    [][ \A t \in SessionTranscripts :
          check_escalation_needed(t) =>
             /\ Len(transcript_buffer') =
                   (IF Len(transcript_buffer) < 10 THEN Len(transcript_buffer) + 1 ELSE 10)
             /\ transcript_buffer'[Len(transcript_buffer')] = t ]_vars

\* the transcript the policy was last asked about
C14_Transcript == heard[Len(heard)]

\* the transcript has one of these spellings as a word
C14_Says(spellings) ==
    \E i \in 1..Len(C14_Transcript) : C14_Transcript[i] \in spellings

\* the transcript has the first word and, later on the same line, the second
C14_SaysThen(first, second) ==
    \E i \in 1..Len(C14_Transcript), j \in 1..Len(C14_Transcript) :
        /\ i < j
        /\ C14_Transcript[i] = first
        /\ C14_Transcript[j] = second
        /\ \A k \in i..j : C14_Transcript[k] # "\n"

C14_FourWords ==
    \/ C14_Says({"agent", "AGENT"})
    \/ C14_Says({"human", "Human"})
    \/ C14_Says({"representative", "Representative"})
    \/ C14_Says({"operator", "Operator"})

C14_OtherPatterns ==
    \/ C14_Says({"person"})
    \/ C14_SaysThen("help", "real")
    \/ C14_SaysThen("speak", "someone")
    \/ C14_SaysThen("talk", "someone")

\* C14 as stated: check_escalation_needed returns (true, KeywordDetected) for
\* every transcript with "agent", "human", "representative" or "operator" as a
\* whole word in any letter case, and (false, no reason) for every transcript
\* with none of these four.
C14_OnlyFourWords ==
    heard # << >> =>
        verdict = (IF C14_FourWords
                   THEN [escalate |-> TRUE, reason |-> "keyword_detected"]
                   ELSE [escalate |-> FALSE, reason |-> None])

\* C14, amended: check_escalation_needed returns (true, KeywordDetected) for
\* every transcript with "agent", "human", "representative", "operator" or
\* "person" as a whole word in any letter case, or with "help" followed by
\* "real", "speak" by "someone" or "talk" by "someone" on one line, and
\* (false, no reason) for every other transcript.
C14_KeywordVerdict ==
    heard # << >> =>
        verdict = (IF C14_FourWords \/ C14_OtherPatterns
                   THEN [escalate |-> TRUE, reason |-> "keyword_detected"]
                   ELSE [escalate |-> FALSE, reason |-> None])

\* a keyword in capitals, next to a word that merely contains it
C14_Witness ==
    /\ heard = << <<"agents", "hello", "AGENT">> >>
    /\ verdict.escalate
    /\ verdict.reason = "keyword_detected"

\* the token of the Lambda's event, without the white space around it, is
\* exactly 10 ASCII digits
EventTokenIsTenAsciiDigits ==
    LET text == strip(reply.token)
    IN  /\ Len(text) = 10
        /\ \A n \in 1..Len(text) :
              text[n] \in {"0", "1", "2", "3", "4", "5", "6", "7", "8", "9"}

\* C15: lambda_handler looks the token up in the store only if the token is
\* exactly 10 ASCII digits; for every other shape it returns a failure response
\* routed to the fallback queue without querying the store.
C15_LookupOnlyForTenAsciiDigits ==
    reply.op = "lambda_handler" =>
        /\ reply.queried => EventTokenIsTenAsciiDigits
        /\ ~EventTokenIsTenAsciiDigits =>
              /\ reply.kind # "success"
              /\ reply.route_to_queue = "fallback"
              /\ ~reply.queried

\* C16: put_handover(p) followed by get_handover(p.token) at any time before
\* p.expires_at returns a payload whose fields equal those of p, the datetime
\* fields to the second.
C16_PutThenGetReturnsPayload ==
    ( /\ reply.op = "get_handover"
      /\ reply.kind # "raised"
      /\ puts # << >>
      /\ reply.token = puts[1].token
      /\ reply.at < puts[1].expires_at ) =>
        /\ reply.kind = "payload"
        /\ reply.payload[1].token = puts[1].token
        /\ reply.payload[1].conversation_id = puts[1].conversation_id
        /\ reply.payload[1].hubspot_contact_id = puts[1].hubspot_contact_id
        /\ reply.payload[1].escalation_reason = puts[1].escalation_reason
        /\ reply.payload[1].created_at \div TicksPerSecond
              = puts[1].created_at \div TicksPerSecond
        /\ reply.payload[1].expires_at \div TicksPerSecond
              = puts[1].expires_at \div TicksPerSecond

\* C17: get_handover returns not-found for every record read after its
\* expires_at, also when the table still returns the item because the TTL
\* process has not deleted it yet.
C17_ExpiredIsNotFound ==
    ( /\ reply.op = "get_handover"
      /\ reply.kind # "raised"
      /\ puts # << >>
      /\ reply.token = puts[1].token
      /\ reply.at > puts[1].expires_at ) =>
        reply.kind = "None"

\* the record was read a fraction of a second after its expiry and is still stored
C17_Witness ==
    /\ reply.op = "get_handover"
    /\ reply.kind = "None"
    /\ puts # << >>
    /\ reply.at = puts[1].expires_at + 1
    /\ \E i \in table : i.token = reply.token

\* C18: the Lambda returns success for a token only if the expires_at of the
\* stored record has not passed when it reads; a record that has expired and is
\* not yet deleted yields the "Token not found or expired" response.
C18_LambdaChecksExpiry ==
    ( /\ reply.op = "lambda_handler"
      /\ EventTokenIsTenAsciiDigits
      /\ puts # << >>
      /\ strip(reply.token) = puts[1].token
      /\ reply.at > puts[1].expires_at ) =>
        /\ reply.kind = "Token not found or expired"
        /\ reply.route_to_queue = "fallback"

\* C19: calling close() twice on a client of either adapter raises no error and
\* the second call does no teardown: it cancels no task, closes no socket and
\* sends no session end.
C19_SecondCloseDoesNothing ==
    [][ (ClientClose /\ closes >= 1) =>
          /\ teardown' = teardown
          /\ receive_task' = receive_task
          /\ sender_task' = sender_task
          /\ ws' = ws ]_vars

\* an OpenAI client with its receive loop running has been closed twice
C19_Witness ==
    /\ adapter = "openai"
    /\ closes = 2
    /\ teardown.cancels = 1
    /\ teardown.socket_closes = 1
    /\ ws = None

\* C20: for either adapter, once the background receive loop has ended,
\* events() yields the events already queued and then terminates: its first
\* wait on the empty queue that times out ends it, and it has then yielded
\* every event the loop had queued.
C20_EventsEndAfterReceiveLoop ==
    /\ [][ (EventsTimeout /\ receive_task \in {"done", "cancelled"}) =>
              eventsPc' = "ended" ]_vars
    /\ []((eventsPc = "ended" /\ closes = 0) =>
              (receive_task = "done" /\ yielded = received))

\* the events of a log that were taken with the flag set and are audio deltas
\* with a payload
C21_Deltas(log) ==
    SelectSeq(log, LAMBDA c : /\ c.running
                              /\ c.event.type = "response.audio.delta"
                              /\ c.event.delta # ""
                              /\ c.event.delta # None)

\* one outbound media frame per delta of a log, in the log's order
C21_Frames(log) ==
    [i \in 1..Len(C21_Deltas(log)) |->
        [event |-> "media", streamSid |-> relay_sid,
         payload |-> C21_Deltas(log)[i].event.delta]]

\* C21 as stated: once the AI loop has taken every event the provider emitted,
\* and no loop has failed, the outbound media frames are exactly the non-empty
\* audio deltas the provider emitted while the bridge was running (_running
\* set), in order, one frame per delta, each with the session's streamSid.
C21_EmittedWhileRunningForwarded ==
    (/\ provider_queue = << >>
     /\ openai_to_twilio \in {"events", "done"}
     /\ twilio_to_openai # "failed") =>
        media_sent = C21_Frames(emitted)

\* C21, amended: the AI loop takes the events in the order the provider emitted
\* them, and the outbound media frames are exactly the non-empty audio deltas
\* among the events it took while the stop flag was unset, in that order, one
\* frame per delta, each with the session's streamSid; an event taken after the
\* flag was cleared is dropped.
C21_TakenWhileRunningForwarded ==
    /\ Len(consumed) <= Len(emitted)
    /\ \A i \in 1..Len(consumed) : consumed[i].event = emitted[i].event
    /\ media_sent = C21_Frames(consumed)

\* two deltas went out in the provider's order
C21_Witness ==
    /\ Len(consumed) = 2
    /\ Len(media_sent) = 2
    /\ media_sent[1].payload = emitted[1].event.delta
    /\ media_sent[2].payload = emitted[2].event.delta
    /\ media_sent[1].payload # media_sent[2].payload

\* the messages read before the first "stop"
C22_BeforeStop(log) ==
    LET stops == {i \in 1..Len(log) : log[i].json = "object" /\ log[i].event = "stop"}
    IN  IF stops = {} THEN log
        ELSE SubSeq(log, 1, (CHOOSE i \in stops : \A j \in stops : i <= j) - 1)

C22_Media(log) ==
    SelectSeq(C22_BeforeStop(log),
              LAMBDA m : /\ m.json = "object"
                         /\ m.event = "media"
                         /\ m.payload # ""
                         /\ m.payload # None)

\* C22: the payloads passed to send_audio_base64 are exactly the non-empty
\* payloads of the "media" messages read before the first "stop", in order and
\* unmodified; the "stop" message is the last one read, and with it the flag is
\* cleared and the loop has exited.
C22_MediaForwardedUntilStop ==
    /\ audio_sent = [i \in 1..Len(C22_Media(messages)) |-> C22_Media(messages)[i].payload]
    /\ \A i \in 1..Len(messages) :
        (messages[i].json = "object" /\ messages[i].event = "stop") =>
            /\ i = Len(messages)
            /\ ~is_running
            /\ twilio_to_openai = "done"

\* a payload was forwarded, then the stream stopped
C22_Witness ==
    /\ Len(messages) = 2
    /\ messages[2].event = "stop"
    /\ audio_sent = <<messages[1].payload>>
    /\ twilio_to_openai = "done"

\* text that is not valid JSON, or JSON that is not an object with an "event"
C23_Malformed(m) == m.json # "object" \/ m.event = None

\* C23: reading a malformed message leaves the stop flag as it is and the
\* telephony loop running: it reads on (unless the flag was already cleared).
C23_MalformedSkipped ==
    [][ (Len(messages') = Len(messages) + 1 /\ C23_Malformed(messages'[Len(messages')])) =>
            /\ is_running' = is_running
            /\ twilio_to_openai' = (IF is_running THEN "receive_text" ELSE "done") ]_vars

\* C24: an Error event taken while the bridge runs leaves the stop flag unset
\* and the AI loop waiting for its next event, and every audio delta taken
\* after it while the bridge runs is still forwarded.
C24_ErrorEventNotFatal ==
    /\ [][ (/\ Len(consumed') = Len(consumed) + 1
            /\ consumed'[Len(consumed')].event.type = "error"
            /\ consumed'[Len(consumed')].running) =>
                (is_running' /\ openai_to_twilio' = "events") ]_vars
    /\ [](\A i \in 1..Len(consumed), j \in 1..Len(consumed) :
            (/\ i < j
             /\ consumed[i].event.type = "error"
             /\ consumed[j].running
             /\ consumed[j].event.type = "response.audio.delta"
             /\ consumed[j].event.delta \notin {"", None}) =>
                \E k \in 1..Len(media_sent) : media_sent[k].payload = consumed[j].event.delta)

\* an error, then a delta that went out
C24_Witness ==
    /\ Len(consumed) = 2
    /\ consumed[1].event.type = "error"
    /\ consumed[2].event.type = "response.audio.delta"
    /\ Len(media_sent) = 1
    /\ openai_to_twilio = "events"
    /\ is_running

\* C25: the handler calls the publisher once for each EscalationRequested event
\* it takes while the bridge runs, with reason AgentDecision, never calls
\* cancel_response or send_user_message, and while the publisher call is in
\* progress the AI loop does not clear the stop flag: the flag is cleared when
\* the call ends (it returns, or raises into the loop).
C25_PublisherOnlyThenStop ==
    /\ [](controls = << >>)
    /\ [](/\ \A i \in 1..Len(publisher.calls) : publisher.calls[i] = "agent_decision"
          /\ Len(publisher.calls) =
               Cardinality({i \in 1..Len(consumed) :
                               /\ consumed[i].running
                               /\ consumed[i].event.type = "escalation.triggered"}))
    /\ [][ (/\ openai_to_twilio = "execute_escalation"
            /\ is_running /\ ~is_running') =>
                \/ publisher'.state \in {"returned", "raised"}
                \/ twilio_to_openai' # twilio_to_openai ]_vars
    /\ [](publisher.state = "returned" => ~is_running)

\* the publisher has returned and the flag is cleared
C25_Witness ==
    /\ publisher = [calls |-> <<"agent_decision">>, state |-> "returned"]
    /\ ~is_running
    /\ controls = << >>
    /\ openai_to_twilio = "events"

\* C26: for both adapters, when the transport cannot be established or sending
\* a session-initialization frame fails, connect() raises: no task of the client
\* is left running for the bridge, events() is never iterated and no audio is
\* passed to the client.
C26_ConnectErrorsRaise ==
    connect_call.fault \in {"transport", "session_init"} =>
        /\ connect_call.outcome = "raised"
        /\ eventsPc = "none"
        /\ yielded = << >>
        /\ audio_received = << >>

\* the positions of the frames of a kind handed to the provider connection
C27_Positions(kind) == {i \in DOMAIN input_stream : input_stream[i].kind = kind}

\* the audio of the audioInput frames handed to the stream, in order
C27_AudioInputs == SelectSeq(input_stream, LAMBDA f : f.kind = "audioInput")

\* C27: the Nova adapter hands the audio contentStart frame to the stream at
\* most once, never in connect() and only once audio was given to
\* send_audio_base64; every audioInput frame comes after it, and the audioInput
\* frames carry the chunks send_audio_base64 received, converted to base64 of
\* 16 kHz linear PCM, in the order they were received.
C27_AudioContentStartedLazilyOnce ==
    /\ [](adapter = "nova" =>
            /\ Cardinality(C27_Positions("contentStart:AUDIO")) <= 1
            /\ (C27_Positions("contentStart:AUDIO") # {} => audio_received # << >>)
            /\ \A i \in C27_Positions("audioInput") :
                  \E j \in C27_Positions("contentStart:AUDIO") : j < i
            /\ Len(C27_AudioInputs) <= Len(audio_received)
            /\ \A k \in DOMAIN C27_AudioInputs :
                  C27_AudioInputs[k].content =
                      [encoding |-> "lpcm/base64", rate |-> 16,
                       data |-> audio_received[k].data])
    /\ [][ (adapter = "nova" /\ connect_call.outcome = "none"
                             /\ connect_call'.outcome # "none") =>
              \A i \in DOMAIN input_stream' :
                  input_stream'[i].kind # "contentStart:AUDIO" ]_vars

\* a Nova client has sent two different chunks, p2 then p1, after one audio
\* contentStart
C27_Witness ==
    /\ adapter = "nova"
    /\ Len(audio_received) = 2
    /\ audio_received[1].data = "p2"
    /\ audio_received[2].data = "p1"
    /\ Len(C27_AudioInputs) = 2
    /\ Cardinality(C27_Positions("contentStart:AUDIO")) = 1

\* C28: close() on a client that is still connected sends the graceful end of
\* the session: the Nova adapter hands a sessionEnd frame to its stream, the
\* OpenAI adapter closes its socket; the tasks are cancelled by then.
C28_CloseSendsSessionEnd ==
    [][ (closes' = closes + 1) =>
          /\ (adapter = "nova" /\ connected /\ stream_response =>
                /\ \E i \in DOMAIN input_stream' : input_stream'[i].kind = "sessionEnd"
                /\ receive_task' # "running"
                /\ sender_task' \notin {"running", "start_audio_content", "audio_input"})
          /\ (adapter = "openai" /\ ws # None =>
                /\ teardown'.socket_closes = teardown.socket_closes + 1
                /\ receive_task' # "running") ]_vars

\* C29: the endpoint's step that reads an opening message creates a session
\* and enters the handler (which constructs and connects the client) only if
\* the message is "start", read first or right after a first "connected"; a
\* first "connected" makes it read once more, and on anything else (a second
\* "connected", another event, unparsable text, a disconnect) the endpoint ends
\* with the registry as it was and no handler.
C29_SessionOnlyAfterStart ==
    /\ [](wsPc = "second" => data = "connected")
    /\ [][ (wsPc \in {"first", "second"} /\ wsPc' # wsPc) =>
              \/ data' = "start"
              \/ /\ wsPc = "first" /\ data' = "connected"
                 /\ wsPc' = "second"
                 /\ sessions' = sessions /\ session' = session /\ hsPc' = "none"
              \/ /\ ~(wsPc = "first" /\ data' = "connected")
                 /\ wsPc' = "closed"
                 /\ sessions' = sessions /\ session' = session /\ hsPc' = "none" ]_vars
    /\ [][ (sessions' # sessions /\ Len(sessions') > Len(sessions)) \/ (hsPc = "none" /\ hsPc' # "none") =>
              /\ wsPc \in {"first", "second"}
              /\ data' = "start" ]_vars

\* a "media" message where the "start" was due: the endpoint is over, nothing
\* was created
C29_Witness ==
    /\ wsPc = "closed"
    /\ data = "media"
    /\ hsPc = "none"
    /\ sessions = << >>
    /\ callbacks = 0

\* C30: for both adapters, each tool call whose ToolResult says
\* triggers_escalation makes the adapter queue exactly one
\* "escalation.triggered" event, and no other tool call queues one.
C30_EscalationEventPerTrigger ==
    Cardinality({i \in DOMAIN received : received[i] = "escalation.triggered"})
        = Cardinality({i \in DOMAIN tool_results : tool_results[i]})

\* C31: a UserTranscript event taken by the AI loop, with an escalation keyword
\* in its text or not, calls neither the publisher nor the escalation policy
\* and leaves the stop flag as it was, so the session (status, metadata,
\* transcript buffer) is not touched; a publisher call is only made for an
\* "escalation.triggered" event.
C31_TranscriptStartsNoEscalation ==
    /\ [][ ( /\ Len(consumed') = Len(consumed) + 1
             /\ consumed'[Len(consumed')].event.type =
                    "conversation.item.input_audio_transcription.completed" ) =>
              /\ publisher' = publisher
              /\ controls' = controls
              /\ is_running' = is_running
              /\ heard' = heard
              /\ transcript_buffer' = transcript_buffer ]_vars
    /\ [][ Len(publisher'.calls) > Len(publisher.calls) =>
              /\ Len(consumed') = Len(consumed) + 1
              /\ consumed'[Len(consumed')].event.type = "escalation.triggered"
              /\ consumed'[Len(consumed')].running ]_vars

\* the AI loop has taken a transcript with a keyword while the bridge was
\* running, and goes on waiting for events
C31_Witness ==
    /\ Len(consumed) = 1
    /\ consumed[1].event.transcript = "let me speak to a human agent"
    /\ consumed[1].running
    /\ is_running
    /\ openai_to_twilio = "events"
    /\ publisher = NoPublisher

\* the process_frame calls that are over: they pushed, or their callback is over
C32_Returned ==
    {n \in DOMAIN frames :
        \/ \E k \in DOMAIN pushed : pushed[k].of = n
        \/ \E i \in DOMAIN on_escalation :
              on_escalation[i].of = n /\ on_escalation[i].outcome # "awaited"}

\* the frames pushed in the process_frame call of the n-th frame, in order
C32_PushedOf(n) ==
    LET own == SelectSeq(pushed, LAMBDA entry : entry.of = n)
    IN  [k \in DOMAIN own |-> own[k].frame]

\* the n-th frame led to a successful escalation
C32_Escalated(n) ==
    \E i \in DOMAIN on_escalation :
        on_escalation[i].of = n /\ on_escalation[i].outcome = "True"

\* C32: the callback is invoked only for a final transcription frame with text
\* that holds a keyword, and never after a call of it returned True; a frame
\* that did not lead to a successful escalation is pushed on as it is, once;
\* a successful escalation pushes the transfer message and then an end frame,
\* not the frame.
C32_CallbackOnlyOnFinalKeywordFrames ==
    /\ [](\A i \in DOMAIN on_escalation :
            /\ frames[on_escalation[i].of].kind = "TranscriptionFrame"
            /\ frames[on_escalation[i].of].text = <<"an", "agent">>
            /\ on_escalation[i].transcript = <<"an", "agent">>)
    /\ [](\A n \in C32_Returned :
            IF C32_Escalated(n)
            THEN /\ Len(C32_PushedOf(n)) = 2
                 /\ C32_PushedOf(n)[1].kind = "TTSSpeakFrame"
                 /\ C32_PushedOf(n)[1].text # << >>
                 /\ C32_PushedOf(n)[2].kind = "EndFrame"
            ELSE C32_PushedOf(n) = <<frames[n]>>)
    /\ [][ escalation_triggered => on_escalation' = on_escalation ]_vars

\* a keyword frame was escalated with success, and the frame given next, a
\* keyword frame again, was pushed on without a call of the callback
C32_Witness ==
    /\ Len(frames) = 3
    /\ frames[1].kind = "InterimTranscriptionFrame"
    /\ frames[2] = [kind |-> "TranscriptionFrame", text |-> <<"an", "agent">>]
    /\ frames[3] = frames[2]
    /\ Len(on_escalation) = 1
    /\ on_escalation[1].outcome = "True"
    /\ Len(pushed) = 4
    /\ pushed[4].of = 3

\* a call of the callback is awaited
C40_InFlight == \E i \in DOMAIN on_escalation : on_escalation[i].outcome = "awaited"

\* C40: when the callback returns False or raises, the pending flag is
\* cleared, escalation_triggered stays false and the frame is pushed on; the
\* processor is armed again, so the next final frame with a keyword invokes the
\* callback; while a call of the callback is awaited none is started.
C40_FailedEscalationStaysArmed ==
    /\ [][ (\E i \in DOMAIN on_escalation :
              /\ on_escalation[i].outcome = "awaited"
              /\ on_escalation'[i].outcome \in {"False", "raised"}) =>
              /\ ~pending_escalation'
              /\ escalation_triggered' = escalation_triggered
              /\ Len(pushed') = Len(pushed) + 1
              /\ \E i \in DOMAIN on_escalation :
                    /\ on_escalation'[i] # on_escalation[i]
                    /\ pushed'[Len(pushed')] =
                          [frame |-> frames[on_escalation[i].of],
                           of |-> on_escalation[i].of] ]_vars
    /\ [][ ( /\ Len(frames') = Len(frames) + 1
             /\ frames'[Len(frames')] =
                    [kind |-> "TranscriptionFrame", text |-> <<"an", "agent">>]
             /\ ~escalation_triggered ) =>
              IF C40_InFlight
              THEN on_escalation' = on_escalation
              ELSE /\ Len(on_escalation') = Len(on_escalation) + 1
                   /\ on_escalation'[Len(on_escalation')].outcome = "awaited" ]_vars
    /\ [](Cardinality({i \in DOMAIN on_escalation :
                          on_escalation[i].outcome = "awaited"}) <= 1)

\* the callback raised for the first keyword frame, returned False for the
\* second and is awaited for the third
C40_Witness ==
    /\ Len(on_escalation) = 3
    /\ on_escalation[1].outcome = "raised"
    /\ on_escalation[2].outcome = "False"
    /\ on_escalation[3].outcome = "awaited"
    /\ ~escalation_triggered
    /\ pending_escalation
    /\ Len(pushed) = 2

\* the stream sids the registry holds a session for
C33_Keys == {sessions[i] : i \in DOMAIN sessions}

\* C33: create_session inserts the session under its stream sid; while it is
\* not removed, get_session of the stream sid and get_session_by_call_sid of its
\* call sid return it; remove_session returns the removed session, after which
\* the stream sid is found no more; removing an unknown stream sid returns
\* nothing and leaves the registry as it was.
C33_RegistryContract ==
    /\ [][ registry_call'.op = "create_session" /\ sessions' # sessions =>
              /\ registry_call'.stream_sid \in {sessions'[i] : i \in DOMAIN sessions'}
              /\ session'[registry_call'.stream_sid] = registry_call'.result
              /\ registry_call'.result.call_sid = registry_call'.call_sid
              /\ registry_call'.result.stream_sid = registry_call'.stream_sid ]_vars
    /\ [](registry_call.op = "get_session" =>
            registry_call.result =
                IF registry_call.stream_sid \in C33_Keys
                THEN session[registry_call.stream_sid]
                ELSE NoSession)
    /\ [](registry_call.op = "get_session_by_call_sid" =>
            \A k \in C33_Keys :
                session[k].call_sid = registry_call.call_sid =>
                    registry_call.result = session[k])
    /\ [][ registry_call'.op = "remove_session" /\ registry_call' # registry_call =>
              /\ registry_call'.stream_sid \notin {sessions'[i] : i \in DOMAIN sessions'}
              /\ IF registry_call'.stream_sid \in C33_Keys
                 THEN registry_call'.result = session[registry_call'.stream_sid]
                 ELSE registry_call'.result = NoSession /\ sessions' = sessions ]_vars

\* C35: a stream-ended callback for a stream whose session is registered acts
\* on that session, whatever other sessions share its call sid: the response
\* redirects with that session's token if it has one and hangs up if not, and
\* that session is the one removed.
C35_CallbackActsOnEndedStream ==
    [][ ( /\ callbacks' = callbacks + 1
          /\ registry_call'.op = "twilio_stream_ended"
          /\ registry_call'.stream_sid \in {sessions[i] : i \in DOMAIN sessions} ) =>
          LET ended == registry_call'.stream_sid
          IN  /\ {sessions'[i] : i \in DOMAIN sessions'} =
                     {sessions[i] : i \in DOMAIN sessions} \ {ended}
              /\ IF session[ended].handover_token # << >>
                 THEN /\ response'.kind = "redirect"
                      /\ response'.send_digits =
                            <<"w", "w", "w", "w">> \o session[ended].handover_token \o <<"#">>
                      /\ redirects'[ended] = redirects[ended] + 1
                 ELSE response'.kind = "goodbye" ]_vars

\* C36: a call on the registry that is about one call (creating, looking up,
\* escalating or removing a session of it, its stream-ended callback) leaves the
\* registered sessions of every other call registered, with their fields as
\* they were, and adds no redirect for them.
C36_CallsAreIsolated ==
    [][ \A k \in {sessions[i] : i \in DOMAIN sessions} :
            session[k].call_sid # registry_call'.call_sid =>
                /\ k \in {sessions'[i] : i \in DOMAIN sessions'}
                /\ session'[k] = session[k]
                /\ redirects'[k] = redirects[k] ]_vars

\* the session of call CA2 was escalated and the callback of call CA1, which
\* has no token, has been served while it was registered: it still is
C36_Witness ==
    /\ registry_call.op = "twilio_stream_ended"
    /\ registry_call.call_sid = "CA1"
    /\ registry_call.result.call_sid = "CA1"
    /\ response.kind = "goodbye"
    /\ Len(sessions) = 1
    /\ session[sessions[1]].call_sid = "CA2"
    /\ session[sessions[1]].status = "escalating"
    /\ session[sessions[1]].handover_token # << >>

\* C34: once the stop flag is cleared while the two loops are bridging, both
\* loops end and handle_stream gets to its teardown, without any further
\* message from the telephony socket or the provider: the telephony loop's
\* receive times out and sees the flag, and handle_stream cancels the other.
C34_StopFlagEndsTheBridge ==
    (hsPc = "wait" /\ ~running) ~>
        (hsPc \in {"closing", "done"} /\ tTask \in {"done", "cancelled"}
                                     /\ aTask \in {"done", "cancelled"})

\* the flag was cleared by an escalation that returned; the telephony loop
\* ended on its own and the AI loop, waiting for events, was cancelled
C34_Witness ==
    /\ hsPc = "done"
    /\ escResult.kind = "returned"
    /\ ~running
    /\ tTask = "done"
    /\ aTask = "cancelled"

\* C37: a session whose metadata holds a handover token has the status
\* Escalating and the store holds a payload with that token for its
\* conversation; a session that is Escalating stays so.
C37_TokenImpliesStoredAndEscalating ==
    /\ [](\A k \in DOMAIN session :
            session[k].handover_token # << >> =>
                /\ session[k].status = "escalating"
                /\ \E item \in store :
                      /\ item.token = session[k].handover_token
                      /\ item.conversation_id = session[k].conversation_id)
    /\ [][ \A k \in DOMAIN session :
              session[k].status = "escalating" =>
                  k \in DOMAIN session' /\ session'[k].status = "escalating" ]_vars

\* an escalation with the CRM enabled has stored its payload and written the
\* token, and the bridge has ended
C37_Witness ==
    /\ hubspot_enabled
    /\ hsPc = "done"
    /\ stream # ""
    /\ session[stream].handover_token # << >>
    /\ session[stream].status = "escalating"
    /\ putCount = 1
    /\ crm = "ok"

\* C38: an escalation that is running when the telephony loop clears the
\* stop flag (a 'stop' frame arrived while execute_escalation was awaiting) is
\* not cancelled: no step takes it from running to cancelled.
C38_EscalationNotAbortedByStop ==
    [][(escResult.kind = "running" /\ ~running) => escResult'.kind # "cancelled"]_vars

\* C39: once close() has returned no tool-call task of the client is still
\* executing, and from then on no frame is handed to the provider connection.
C39_NoToolTaskOutlivesClose ==
    /\ [](closes >= 1 =>
            \A i \in DOMAIN tool_tasks :
                tool_tasks[i] \notin {"execute_tool", "send_tool_result"})
    /\ [][closes >= 1 => input_stream' = input_stream]_vars

====
